---- MODULE Spec2Model ----
(***************************************************************************)
(* Model of the MiniTui playback daemon: the Playlist cursor               *)
(* (src/src/playlist.rs), the Player state machine (src/src/player.rs)     *)
(* and the Daemon control loop and command dispatch (src/src/daemon.rs).   *)
(*                                                                         *)
(* Time is counted in whole seconds.  Option<T> values are modelled as     *)
(* sequences of length at most one: None is <<>> and Some(x) is <<x>>.     *)
(* Playlist indices are 0-based as in the source; TLA+ sequences are       *)
(* 1-based, so tracks[i] of the source is tracks[i + 1] here.              *)
(***************************************************************************)
EXTENDS Integers, Sequences, FiniteSets, TLC

VARIABLES
    playlist,             \* Daemon.playlist : Playlist {tracks, current_index}
    player,               \* Daemon.player   : Player fields and the sink
    last_manual_command,  \* Daemon.last_manual_command : Instant
    now,                  \* the monotonic clock (Instant::now()), in seconds
    response,             \* what the latest step wrote on its connection
    running,              \* FALSE once the process has exited
    lastOp,               \* SpecPlaylist, SpecPlayer: the method called last
    run,                  \* SpecPlaylist: calls of the current run of lastOp
    task,                 \* SpecLoop: where the task running run() stands
    played,               \* SpecPlayer: seconds spent Playing since the load
    lock,                 \* SpecLocks: which caller holds each Mutex of Player
    thread                \* SpecLocks: where each caller of Player stands

vars == <<playlist, player, last_manual_command, now, response, running,
          lastOp, run, task, played, lock, thread>>

----------------------------------------------------------------------------
(* Bounds of the model *)

MaxTracks == 2

MaxTime == 3

MaxRun == 4

\* callers of one Player at a time, and method calls they make in all
MaxCallers == 2

MaxCalls == 3

----------------------------------------------------------------------------
(* Option<T> *)

None == <<>>

Some(x) == <<x>>

IsSome(o) == o # <<>>

Unwrap(o) == o[1]

----------------------------------------------------------------------------
(* The file system the daemon runs on: a fixed directory tree.             *)

Files == {"a.mp3", "notes.txt",
          "music/bad.flac", "music/c.OGG", "music/cover.jpg"}

Dirs == {"music"}

\* Path::is_file
is_file(path) == path \in Files

\* Path::is_dir
is_dir(path) == path \in Dirs

\* WalkDir::new(dir).follow_links(true): the entries in traversal order
WalkDir(path) ==
    IF path = "music"
    THEN <<"music", "music/bad.flac", "music/c.OGG", "music/cover.jpg">>
    ELSE <<>>

\* Path::extension, as written in the file name
extension(path) ==
    CASE path = "a.mp3" -> Some("mp3")
      [] path = "gone.mp3" -> Some("mp3")
      [] path = "notes.txt" -> Some("txt")
      [] path = "music/bad.flac" -> Some("flac")
      [] path = "music/c.OGG" -> Some("OGG")
      [] path = "music/cover.jpg" -> Some("jpg")
      [] OTHER -> None

\* str::to_lowercase on the extensions that occur
to_lowercase(s) ==
    CASE s = "MP3" -> "mp3"
      [] s = "FLAC" -> "flac"
      [] s = "OGG" -> "ogg"
      [] OTHER -> s

\* std::fs::read succeeds
CanRead(path) == path \in Files

\* rodio::Decoder::new succeeds on the file's bytes
CanDecode(path) == path \in {"music/c.OGG"}

\* source.total_duration() of a decodable file, in seconds (None if unknown)
total_duration(path) == IF path = "music/c.OGG" THEN Some(3) ELSE None

----------------------------------------------------------------------------
(* Playlist (src/src/playlist.rs) *)

AUDIO_EXTENSIONS ==
    {"mp3", "flac", "wav", "ogg", "opus", "m4a", "aac", "wma", "ape", "aiff"}

is_audio_file(path) ==
    LET ext == extension(path)
    IN  IF IsSome(ext) THEN to_lowercase(Unwrap(ext)) \in AUDIO_EXTENSIONS
        ELSE FALSE

Playlist_new == [tracks |-> <<>>, current_index |-> None]

\* the audio files under a directory, in traversal order
WalkAudio(path) ==
    SelectSeq(WalkDir(path), LAMBDA e : is_file(e) /\ is_audio_file(e))

\* add_track without the "first track becomes current" step
add_track_no_cursor(pl, path) ==
    [tracks |->
         IF is_file(path)
         THEN IF is_audio_file(path) THEN Append(pl.tracks, path)
              ELSE pl.tracks
         ELSE IF is_dir(path) THEN pl.tracks \o WalkAudio(path)
         ELSE pl.tracks,
     current_index |-> pl.current_index]

\* add_track that skips a file the list already holds
add_track_skips_duplicates(pl, path) ==
    LET held == {pl.tracks[i] : i \in 1..Len(pl.tracks)}
        pushed ==
            IF is_file(path)
            THEN IF is_audio_file(path) /\ path \notin held
                 THEN Append(pl.tracks, path)
                 ELSE pl.tracks
            ELSE IF is_dir(path) THEN pl.tracks \o WalkAudio(path)
            ELSE pl.tracks
    IN  [tracks |-> pushed,
         current_index |->
             IF Len(pushed) = 1 THEN Some(0) ELSE pl.current_index]

add_track(pl, path) ==
    LET pushed ==
            IF is_file(path)
            THEN IF is_audio_file(path) THEN Append(pl.tracks, path)
                 ELSE pl.tracks
            ELSE IF is_dir(path) THEN pl.tracks \o WalkAudio(path)
            ELSE pl.tracks
    IN  [tracks |-> pushed,
         current_index |->
             IF Len(pushed) = 1 THEN Some(0) ELSE pl.current_index]

RECURSIVE add_tracks(_, _)
add_tracks(pl, paths) ==
    IF paths = <<>> THEN pl
    ELSE add_tracks(add_track(pl, Head(paths)), Tail(paths))

\* clear that forgets to reset the cursor
clear_keeps_cursor(pl) == [tracks |-> <<>>, current_index |-> pl.current_index]

clear(pl) == [tracks |-> <<>>, current_index |-> None]

\* next() that wraps to the first track instead of running off the end
next_wraps(pl) ==
    IF pl.tracks = <<>> THEN [playlist |-> pl, ret |-> None]
    ELSE
        LET next_index ==
                IF pl.current_index = None THEN Some(0)
                ELSE Some((Unwrap(pl.current_index) + 1) % Len(pl.tracks))
        IN  [playlist |-> [pl EXCEPT !.current_index = next_index],
             ret |-> Some(pl.tracks[Unwrap(next_index) + 1])]

\* next() without the early return on an empty list
next_no_empty_check(pl) ==
    LET next_index ==
            IF pl.current_index = None THEN Some(0)
            ELSE IF Unwrap(pl.current_index) + 1 >= Len(pl.tracks) THEN None
                 ELSE Some(Unwrap(pl.current_index) + 1)
    IN  [playlist |-> [pl EXCEPT !.current_index = next_index],
         ret |-> IF IsSome(next_index) /\ pl.tracks # <<>>
                 THEN Some(pl.tracks[Unwrap(next_index) + 1])
                 ELSE None]

\* next() that runs off the end one track early
next_off_by_one(pl) ==
    IF pl.tracks = <<>> THEN [playlist |-> pl, ret |-> None]
    ELSE
        LET next_index ==
                IF pl.current_index = None THEN Some(0)
                ELSE IF Unwrap(pl.current_index) + 2 >= Len(pl.tracks)
                     THEN None
                     ELSE Some(Unwrap(pl.current_index) + 1)
        IN  [playlist |-> [pl EXCEPT !.current_index = next_index],
             ret |-> IF IsSome(next_index)
                     THEN Some(pl.tracks[Unwrap(next_index) + 1])
                     ELSE None]

\* next() that stays on the last track when it runs off the end
next_stays_at_end(pl) ==
    IF pl.tracks = <<>> THEN [playlist |-> pl, ret |-> None]
    ELSE IF pl.current_index = None
    THEN [playlist |-> [pl EXCEPT !.current_index = Some(0)],
          ret |-> Some(pl.tracks[1])]
    ELSE IF Unwrap(pl.current_index) + 1 >= Len(pl.tracks)
    THEN [playlist |-> pl, ret |-> None]
    ELSE [playlist |-> [pl EXCEPT !.current_index = Some(Unwrap(@) + 1)],
          ret |-> Some(pl.tracks[Unwrap(pl.current_index) + 2])]

\* next() : the playlist after the call and the value returned
next(pl) ==
    IF pl.tracks = <<>> THEN [playlist |-> pl, ret |-> None]
    ELSE
        LET next_index ==
                IF pl.current_index = None THEN Some(0)
                ELSE IF Unwrap(pl.current_index) + 1 >= Len(pl.tracks)
                     THEN None
                     ELSE Some(Unwrap(pl.current_index) + 1)
        IN  [playlist |-> [pl EXCEPT !.current_index = next_index],
             ret |-> IF IsSome(next_index)
                     THEN Some(pl.tracks[Unwrap(next_index) + 1])
                     ELSE None]

\* previous() that runs off the start the way next() runs off the end
previous_resets(pl) ==
    IF pl.tracks = <<>> THEN [playlist |-> pl, ret |-> None]
    ELSE
        LET prev_index ==
                IF pl.current_index = None THEN Some(0)
                ELSE IF Unwrap(pl.current_index) = 0 THEN None
                     ELSE Some(Unwrap(pl.current_index) - 1)
        IN  [playlist |-> [pl EXCEPT !.current_index = prev_index],
             ret |-> IF IsSome(prev_index)
                     THEN Some(pl.tracks[Unwrap(prev_index) + 1])
                     ELSE None]

\* previous() : the playlist after the call and the value returned
previous(pl) ==
    IF pl.tracks = <<>> THEN [playlist |-> pl, ret |-> None]
    ELSE
        LET prev_index ==
                IF pl.current_index = None THEN Some(0)
                ELSE IF Unwrap(pl.current_index) = 0 THEN Some(0)
                     ELSE Some(Unwrap(pl.current_index) - 1)
        IN  [playlist |-> [pl EXCEPT !.current_index = prev_index],
             ret |-> Some(pl.tracks[Unwrap(prev_index) + 1])]

current(pl) ==
    IF IsSome(pl.current_index)
    THEN Some(pl.tracks[Unwrap(pl.current_index) + 1])
    ELSE None

get_tracks(pl) == pl.tracks

len(pl) == Len(pl.tracks)

playlist_is_empty(pl) == pl.tracks = <<>>

current_index(pl) == pl.current_index

----------------------------------------------------------------------------
(* Player (src/src/player.rs).  The sink is the rodio queue: the number of *)
(* sources still queued, its paused flag and its volume in percent.        *)

Player_new ==
    [sink |-> [len |-> 0, paused |-> FALSE, volume |-> 70],
     current_track |-> None,
     state |-> "Stopped",
     volume |-> 70,
     duration |-> 0,
     start_time |-> None,
     paused_position |-> 0]

\* path.to_lowercase().ends_with(".mp3")
is_mp3(path) ==
    IsSome(extension(path)) /\ to_lowercase(Unwrap(extension(path))) = "mp3"

\* load_track that stops the sink before it reads the file
load_track_stops_first(p, path, t) ==
    IF ~CanRead(path) \/ (~is_mp3(path) /\ ~CanDecode(path))
    THEN [ok |-> FALSE, err |-> "Failed to read audio file",
          player |-> [p EXCEPT !.sink = [@ EXCEPT !.len = 0]]]
    ELSE [ok |-> TRUE, err |-> "",
          player |->
              [p EXCEPT !.duration = 0,
                        !.sink = [@ EXCEPT !.len = 1, !.paused = FALSE],
                        !.start_time = Some(t),
                        !.paused_position = 0,
                        !.current_track = Some(path),
                        !.state = "Playing"]]

\* load_track that leaves paused_position as the previous track left it
load_track_keeps_position(p, path, t) ==
    IF ~CanRead(path)
    THEN [ok |-> FALSE, err |-> "Failed to read audio file", player |-> p]
    ELSE IF ~is_mp3(path) /\ ~CanDecode(path)
    THEN [ok |-> FALSE, err |-> "Failed to decode audio file", player |-> p]
    ELSE
        LET duration ==
                IF is_mp3(path) THEN 0
                ELSE IF IsSome(total_duration(path))
                     THEN Unwrap(total_duration(path))
                     ELSE 0
        IN  [ok |-> TRUE, err |-> "",
             player |->
                 [p EXCEPT !.duration = duration,
                           !.sink = [@ EXCEPT !.len = 1, !.paused = FALSE],
                           !.start_time = Some(t),
                           !.current_track = Some(path),
                           !.state = "Playing"]]

\* load_track at instant t: the outcome and the player after the call
load_track(p, path, t) ==
    IF ~CanRead(path)
    THEN [ok |-> FALSE, err |-> "Failed to read audio file", player |-> p]
    ELSE IF ~is_mp3(path) /\ ~CanDecode(path)
    THEN [ok |-> FALSE, err |-> "Failed to decode audio file", player |-> p]
    ELSE
        LET duration ==
                IF is_mp3(path) THEN 0
                ELSE IF IsSome(total_duration(path))
                     THEN Unwrap(total_duration(path))
                     ELSE 0
        IN  [ok |-> TRUE, err |-> "",
             player |->
                 [p EXCEPT !.duration = duration,
                           !.sink = [@ EXCEPT !.len = 1, !.paused = FALSE],
                           !.start_time = Some(t),
                           !.paused_position = 0,
                           !.current_track = Some(path),
                           !.state = "Playing"]]

\* play() without the test on current_track
play_unguarded(p, t) ==
    [p EXCEPT !.sink = [@ EXCEPT !.paused = FALSE],
              !.start_time = Some(t),
              !.state = "Playing"]

\* play() that folds the elapsed time but leaves a running start_time alone
play_folds_elapsed(p, t) ==
    IF IsSome(p.current_track)
    THEN [p EXCEPT !.sink = [@ EXCEPT !.paused = FALSE],
                   !.paused_position =
                       @ + (IF IsSome(p.start_time)
                            THEN t - Unwrap(p.start_time) ELSE 0),
                   !.start_time = IF IsSome(p.start_time) THEN @ ELSE Some(t),
                   !.state = "Playing"]
    ELSE p

play(p, t) ==
    IF IsSome(p.current_track)
    THEN [p EXCEPT !.sink = [@ EXCEPT !.paused = FALSE],
                   !.start_time = Some(t),
                   !.state = "Playing"]
    ELSE p

\* pause that reads start_time without taking it
pause_keeps_start_time(p, t) ==
    IF ~p.sink.paused
    THEN [p EXCEPT !.sink = [@ EXCEPT !.paused = TRUE],
                   !.paused_position =
                       @ + (IF IsSome(p.start_time)
                            THEN t - Unwrap(p.start_time) ELSE 0),
                   !.state = "Paused"]
    ELSE p

\* pause that takes start_time without adding the elapsed time
pause_drops_elapsed(p, t) ==
    IF ~p.sink.paused
    THEN [p EXCEPT !.sink = [@ EXCEPT !.paused = TRUE],
                   !.start_time = None,
                   !.state = "Paused"]
    ELSE p

pause(p, t) ==
    IF ~p.sink.paused
    THEN LET elapsed ==
                 IF IsSome(p.start_time) THEN t - Unwrap(p.start_time) ELSE 0
         IN  [p EXCEPT !.sink = [@ EXCEPT !.paused = TRUE],
                       !.start_time = None,
                       !.paused_position = @ + elapsed,
                       !.state = "Paused"]
    ELSE p

\* stop() that forgets to clear current_track
stop_keeps_track(p) ==
    [p EXCEPT !.sink = [@ EXCEPT !.len = 0],
              !.start_time = None,
              !.paused_position = 0,
              !.state = "Stopped"]

\* stop() that leaves start_time and paused_position as they were
stop_keeps_position(p) ==
    [p EXCEPT !.sink = [@ EXCEPT !.len = 0],
              !.current_track = None,
              !.state = "Stopped"]

stop(p) ==
    [p EXCEPT !.sink = [@ EXCEPT !.len = 0],
              !.start_time = None,
              !.paused_position = 0,
              !.current_track = None,
              !.state = "Stopped"]

\* u8::min
min(a, b) == IF a <= b THEN a ELSE b

\* set_volume without level.min(100)
set_volume_unclamped(p, level) ==
    [p EXCEPT !.sink = [@ EXCEPT !.volume = level], !.volume = level]

set_volume(p, level) ==
    [p EXCEPT !.sink = [@ EXCEPT !.volume = min(level, 100)],
              !.volume = min(level, 100)]

get_volume(p) == p.volume

\* Player::is_empty : the sink has nothing queued
is_empty(p) == p.sink.len = 0

get_state(p) == p.state

get_current_track(p) == p.current_track

get_duration(p) == p.duration

\* get_position read at instant t
get_position(p, t) ==
    LET paused == p.paused_position
        elapsed == IF IsSome(p.start_time) THEN t - Unwrap(p.start_time) ELSE 0
    IN  paused + elapsed

----------------------------------------------------------------------------
(* Player under several callers.  Every field of Player is an              *)
(* Arc<Mutex<_>>; a method is the sequence of its lock() calls.  A step    *)
(* of a method either takes one Mutex (and waits while another caller      *)
(* holds it) or drops one guard, writing or reading the value it guarded.  *)
(* A guard bound with `let` lives to the end of the method; the guard of   *)
(* `*self.f.lock().unwrap() = v;` is a temporary dropped at the end of its *)
(* statement, and the one in the condition of an `if` at the end of the    *)
(* condition.                                                              *)

\* the Mutex fields of struct Player
LockNames ==
    {"sink", "current_track", "state", "volume", "duration", "start_time",
     "paused_position"}

NoLock == "none"

\* one step of a method: the Mutex it takes, the guard it drops, the Player
\* after it, the caller's local value, the step that follows (0: the method
\* has returned) and the value returned
St(wait, free, p, local, pc, result) ==
    [wait |-> wait, free |-> free, player |-> p, local |-> local, pc |-> pc,
     result |-> result]

\* the duration load_track computes for a source it could open
source_duration(path) ==
    IF is_mp3(path) THEN 0
    ELSE IF IsSome(total_duration(path)) THEN Unwrap(total_duration(path))
    ELSE 0

\* load_track: the file is read and decoded with no lock held, duration is
\* written, then the sink guard is held over the four remaining writes
load_track_step(pc, path, p, local, t) ==
    CASE pc = 1 ->
             IF load_track(p, path, t).ok
             THEN St("duration", NoLock, p, local, 2, None)
             ELSE St(NoLock, NoLock, p, local, 0, Some("Err"))
      [] pc = 2 ->
             St(NoLock, "duration",
                [p EXCEPT !.duration = source_duration(path)], local, 3, None)
      [] pc = 3 ->
             St("sink", NoLock,
                [p EXCEPT !.sink = [@ EXCEPT !.len = 1, !.paused = FALSE]],
                local, 4, None)
      [] pc = 4 -> St("start_time", NoLock, p, local, 5, None)
      [] pc = 5 ->
             St(NoLock, "start_time", [p EXCEPT !.start_time = Some(t)],
                local, 6, None)
      [] pc = 6 -> St("paused_position", NoLock, p, local, 7, None)
      [] pc = 7 ->
             St(NoLock, "paused_position", [p EXCEPT !.paused_position = 0],
                local, 8, None)
      [] pc = 8 -> St("current_track", NoLock, p, local, 9, None)
      [] pc = 9 ->
             St(NoLock, "current_track",
                [p EXCEPT !.current_track = Some(path)], local, 10, None)
      [] pc = 10 -> St("state", NoLock, p, local, 11, None)
      [] pc = 11 ->
             St(NoLock, "state", [p EXCEPT !.state = "Playing"], local, 12,
                None)
      [] OTHER -> St(NoLock, "sink", p, local, 0, Some("Ok"))

\* play() that takes current_track before the sink and holds it to the end
play_step_track_first(pc, arg, p, local, t) ==
    CASE pc = 1 -> St("current_track", NoLock, p, local, 2, None)
      [] pc = 2 -> St("sink", NoLock, p, local, 3, None)
      [] pc = 3 ->
             IF IsSome(p.current_track)
             THEN St(NoLock, NoLock,
                     [p EXCEPT !.sink = [@ EXCEPT !.paused = FALSE]], local,
                     4, None)
             ELSE St(NoLock, NoLock, p, local, 8, None)
      [] pc = 4 -> St("start_time", NoLock, p, local, 5, None)
      [] pc = 5 ->
             St(NoLock, "start_time", [p EXCEPT !.start_time = Some(t)],
                local, 6, None)
      [] pc = 6 -> St("state", NoLock, p, local, 7, None)
      [] pc = 7 ->
             St(NoLock, "state", [p EXCEPT !.state = "Playing"], local, 8,
                None)
      [] pc = 8 -> St(NoLock, "current_track", p, local, 9, None)
      [] OTHER -> St(NoLock, "sink", p, local, 0, Some("Ok"))

\* play(): the sink guard, then the test of current_track under a guard
\* dropped at the end of the condition, then the two writes
play_step(pc, arg, p, local, t) ==
    CASE pc = 1 -> St("sink", NoLock, p, local, 2, None)
      [] pc = 2 -> St("current_track", NoLock, p, local, 3, None)
      [] pc = 3 ->
             IF IsSome(p.current_track)
             THEN St(NoLock, "current_track",
                     [p EXCEPT !.sink = [@ EXCEPT !.paused = FALSE]], local,
                     4, None)
             ELSE St(NoLock, "current_track", p, local, 8, None)
      [] pc = 4 -> St("start_time", NoLock, p, local, 5, None)
      [] pc = 5 ->
             St(NoLock, "start_time", [p EXCEPT !.start_time = Some(t)],
                local, 6, None)
      [] pc = 6 -> St("state", NoLock, p, local, 7, None)
      [] pc = 7 ->
             St(NoLock, "state", [p EXCEPT !.state = "Playing"], local, 8,
                None)
      [] OTHER -> St(NoLock, "sink", p, local, 0, Some("Ok"))

\* pause(): the sink guard and the test of is_paused(), then start_time is
\* taken, the elapsed time kept in a local and added to paused_position
pause_step(pc, arg, p, local, t) ==
    CASE pc = 1 ->
             IF ~p.sink.paused
             THEN St("sink", NoLock,
                     [p EXCEPT !.sink = [@ EXCEPT !.paused = TRUE]], local, 2,
                     None)
             ELSE St("sink", NoLock, p, local, 8, None)
      [] pc = 2 -> St("start_time", NoLock, p, local, 3, None)
      [] pc = 3 ->
             St(NoLock, "start_time", [p EXCEPT !.start_time = None],
                IF IsSome(p.start_time) THEN t - Unwrap(p.start_time) ELSE 0,
                4, None)
      [] pc = 4 -> St("paused_position", NoLock, p, local, 5, None)
      [] pc = 5 ->
             St(NoLock, "paused_position",
                [p EXCEPT !.paused_position = @ + local], 0, 6, None)
      [] pc = 6 -> St("state", NoLock, p, local, 7, None)
      [] pc = 7 ->
             St(NoLock, "state", [p EXCEPT !.state = "Paused"], local, 8,
                None)
      [] OTHER -> St(NoLock, "sink", p, local, 0, Some("Ok"))

\* stop(): the sink guard held over the four writes
stop_step(pc, arg, p, local, t) ==
    CASE pc = 1 ->
             St("sink", NoLock, [p EXCEPT !.sink = [@ EXCEPT !.len = 0]],
                local, 2, None)
      [] pc = 2 -> St("start_time", NoLock, p, local, 3, None)
      [] pc = 3 ->
             St(NoLock, "start_time", [p EXCEPT !.start_time = None], local,
                4, None)
      [] pc = 4 -> St("paused_position", NoLock, p, local, 5, None)
      [] pc = 5 ->
             St(NoLock, "paused_position", [p EXCEPT !.paused_position = 0],
                local, 6, None)
      [] pc = 6 -> St("current_track", NoLock, p, local, 7, None)
      [] pc = 7 ->
             St(NoLock, "current_track", [p EXCEPT !.current_track = None],
                local, 8, None)
      [] pc = 8 -> St("state", NoLock, p, local, 9, None)
      [] pc = 9 ->
             St(NoLock, "state", [p EXCEPT !.state = "Stopped"], local, 10,
                None)
      [] OTHER -> St(NoLock, "sink", p, local, 0, Some("Ok"))

\* set_volume(level): the sink guard, then the volume field
set_volume_step(pc, level, p, local, t) ==
    CASE pc = 1 ->
             St("sink", NoLock,
                [p EXCEPT !.sink = [@ EXCEPT !.volume = min(level, 100)]],
                local, 2, None)
      [] pc = 2 -> St("volume", NoLock, p, local, 3, None)
      [] pc = 3 ->
             St(NoLock, "volume", [p EXCEPT !.volume = min(level, 100)],
                local, 4, None)
      [] OTHER -> St(NoLock, "sink", p, local, 0, Some("Ok"))

\* is_empty(): the sink guard alone
is_empty_step(pc, arg, p, local, t) ==
    IF pc = 1 THEN St("sink", NoLock, p, local, 2, None)
    ELSE St(NoLock, "sink", p, local, 0, Some(is_empty(p)))

\* get_volume(), get_state(), get_current_track(), get_duration(): the
\* guard of the one field read
get_field_step(pc, field, p, local, t) ==
    IF pc = 1 THEN St(field, NoLock, p, local, 2, None)
    ELSE St(NoLock, field, p, local, 0, Some(p[field]))

\* get_position(): paused_position is read under its guard into a local,
\* then start_time under its own
get_position_step(pc, arg, p, local, t) ==
    CASE pc = 1 -> St("paused_position", NoLock, p, local, 2, None)
      [] pc = 2 ->
             St(NoLock, "paused_position", p, p.paused_position, 3, None)
      [] pc = 3 -> St("start_time", NoLock, p, local, 4, None)
      [] OTHER ->
             St(NoLock, "start_time", p, 0, 0,
                Some(local + (IF IsSome(p.start_time)
                              THEN t - Unwrap(p.start_time) ELSE 0)))

\* the methods of impl Player by name
step_of(op, pc, arg, level, p, local, t) ==
    CASE op = "load_track" -> load_track_step(pc, arg, p, local, t)
      [] op = "play" -> play_step(pc, arg, p, local, t)
      [] op = "pause" -> pause_step(pc, arg, p, local, t)
      [] op = "stop" -> stop_step(pc, arg, p, local, t)
      [] op = "set_volume" -> set_volume_step(pc, level, p, local, t)
      [] op = "is_empty" -> is_empty_step(pc, arg, p, local, t)
      [] op = "get_position" -> get_position_step(pc, arg, p, local, t)
      [] OTHER -> get_field_step(pc, arg, p, local, t)

\* the Player a method leaves when it runs alone at instant t
effect_of(op, arg, level, p, t) ==
    CASE op = "load_track" -> load_track(p, arg, t).player
      [] op = "play" -> play(p, t)
      [] op = "pause" -> pause(p, t)
      [] op = "stop" -> stop(p)
      [] op = "set_volume" -> set_volume(p, level)
      [] OTHER -> p

\* no Mutex of a new Player is held (0: free, i: held by caller i)
Lock_new == [l \in LockNames |-> 0]

\* the caller that mutates and the caller that reads, where a claim is about
\* one of each
Writer == 1

Reader == 2

\* a caller that has called nothing yet.  arg is the path or the field a
\* call names, level the volume it sets.  pc = 0: between two calls.  calls
\* counts its calls; before is the Player as the latest call found it; c0
\* and m0 tell how many calls the Writer had made when the latest call began
\* and whether it was inside one, c1 how many when the call returned, at the
\* instant of the return
Caller_new ==
    [op |-> "none", arg |-> "", level |-> 0, pc |-> 0, local |-> 0,
     result |-> None, calls |-> 0, before |-> Player_new, c0 |-> 0,
     m0 |-> FALSE, c1 |-> 0, at |-> 0]

----------------------------------------------------------------------------
(* Protocol (src/src/ipc.rs) *)

CmdPlay(path) == [type |-> "Play", path |-> path]

CmdPause == [type |-> "Pause"]

CmdStop == [type |-> "Stop"]

CmdNext == [type |-> "Next"]

CmdPrevious == [type |-> "Previous"]

CmdSetVolume(level) == [type |-> "SetVolume", level |-> level]

CmdAddTracks(paths) == [type |-> "AddTracks", paths |-> paths]

CmdGetStatus == [type |-> "GetStatus"]

CmdGetPlaylist == [type |-> "GetPlaylist"]

CmdClearPlaylist == [type |-> "ClearPlaylist"]

CmdShutdown == [type |-> "Shutdown"]

Ok == [type |-> "Ok"]

Error(message) == [type |-> "Error", message |-> message]

Status(status) == [type |-> "Status", status |-> status]

PlaylistResponse(tracks) == [type |-> "Playlist", tracks |-> tracks]

\* nothing was written on the connection
NoResponse == [type |-> "None"]

----------------------------------------------------------------------------
(* Daemon (src/src/daemon.rs) *)

\* Duration::from_secs(2): the quiet window of the auto-advance tick
QuietSecs == 2

\* Duration::from_secs(10): how far in the past last_manual_command starts
InitialPastSecs == 10

\* for _ in 0..5 : candidates tried by Next and Previous
MaxAttempts == 5

\* the stamp match without Command::Stop
StampsManual_without_stop(command) ==
    command.type \in {"Play", "Next", "Previous"}

\* the commands that re-stamp last_manual_command
StampsManual(command) == command.type \in {"Play", "Next", "Previous", "Stop"}

\* the loop of Command::Next that stops the player when no track is found
RECURSIVE next_loop_stops_player(_, _, _, _)
next_loop_stops_player(p, pl, t, k) ==
    IF k = 0
    THEN [player |-> stop(p), playlist |-> pl,
          response |-> Error("No playable next track found")]
    ELSE
        LET n == next(pl) IN
        IF IsSome(n.ret)
        THEN LET r == load_track(p, Unwrap(n.ret), t) IN
             IF r.ok
             THEN [player |-> r.player, playlist |-> n.playlist,
                   response |-> Ok]
             ELSE next_loop_stops_player(r.player, n.playlist, t, k - 1)
        ELSE [player |-> stop(p), playlist |-> n.playlist,
              response |-> Error("No playable next track found")]

\* the loop of Command::Next without the bound on its iterations
RECURSIVE next_loop_unbounded(_, _, _, _)
next_loop_unbounded(p, pl, t, k) ==
    LET n == next(pl) IN
    IF IsSome(n.ret)
    THEN LET r == load_track(p, Unwrap(n.ret), t) IN
         IF r.ok
         THEN [player |-> r.player, playlist |-> n.playlist, response |-> Ok]
         ELSE next_loop_unbounded(r.player, n.playlist, t, k)
    ELSE [player |-> p, playlist |-> n.playlist,
          response |-> Error("No playable next track found")]

\* the loop of Command::Next with k iterations left; pl is the playlist
RECURSIVE next_loop(_, _, _, _)
next_loop(p, pl, t, k) ==
    IF k = 0
    THEN [player |-> p, playlist |-> pl,
          response |-> Error("No playable next track found")]
    ELSE
        LET n == next(pl) IN
        IF IsSome(n.ret)
        THEN LET r == load_track(p, Unwrap(n.ret), t) IN
             IF r.ok
             THEN [player |-> r.player, playlist |-> n.playlist,
                   response |-> Ok]
             ELSE next_loop(r.player, n.playlist, t, k - 1)
        ELSE [player |-> p, playlist |-> n.playlist,
              response |-> Error("No playable next track found")]

\* the loop of Command::Previous loading the track before the cursor without
\* moving the cursor onto it
RECURSIVE previous_loop_keeps_cursor(_, _, _, _)
previous_loop_keeps_cursor(p, pl, t, k) ==
    IF k = 0
    THEN [player |-> p, playlist |-> pl,
          response |-> Error("No playable previous track found")]
    ELSE
        LET n == previous(pl) IN
        IF IsSome(n.ret)
        THEN LET r == load_track(p, Unwrap(n.ret), t) IN
             IF r.ok
             THEN [player |-> r.player, playlist |-> pl, response |-> Ok]
             ELSE previous_loop_keeps_cursor(r.player, n.playlist, t, k - 1)
        ELSE [player |-> p, playlist |-> n.playlist,
              response |-> Error("No playable previous track found")]

\* the loop of Command::Previous with k iterations left
RECURSIVE previous_loop(_, _, _, _)
previous_loop(p, pl, t, k) ==
    IF k = 0
    THEN [player |-> p, playlist |-> pl,
          response |-> Error("No playable previous track found")]
    ELSE
        LET n == previous(pl) IN
        IF IsSome(n.ret)
        THEN LET r == load_track(p, Unwrap(n.ret), t) IN
             IF r.ok
             THEN [player |-> r.player, playlist |-> n.playlist,
                   response |-> Ok]
             ELSE previous_loop(r.player, n.playlist, t, k - 1)
        ELSE [player |-> p, playlist |-> n.playlist,
              response |-> Error("No playable previous track found")]

\* Command::Play { path: None } that always advances with next()
handle_play_always_next(p, pl, path, t) ==
    IF IsSome(path)
    THEN LET r == load_track(p, Unwrap(path), t) IN
         [player |-> r.player, playlist |-> pl,
          response |-> IF r.ok THEN Ok
                       ELSE Error("Failed to play: " \o r.err)]
    ELSE IF IsSome(get_current_track(p))
    THEN [player |-> play(p, t), playlist |-> pl, response |-> Ok]
    ELSE IF playlist_is_empty(pl)
    THEN [player |-> p, playlist |-> pl,
          response |-> Error("Playlist is empty")]
    ELSE
        LET n == next(pl) IN
        IF IsSome(n.ret)
        THEN LET r == load_track(p, Unwrap(n.ret), t) IN
             [player |-> r.player, playlist |-> n.playlist,
              response |->
                  IF r.ok THEN Ok
                  ELSE Error("Failed to play first track: " \o r.err)]
        ELSE [player |-> p, playlist |-> n.playlist,
              response |-> Error("Failed to get track from playlist")]

\* Command::Play { path: None } without the is_empty() test
handle_play_no_empty_check(p, pl, path, t) ==
    IF IsSome(path)
    THEN LET r == load_track(p, Unwrap(path), t) IN
         [player |-> r.player, playlist |-> pl,
          response |-> IF r.ok THEN Ok
                       ELSE Error("Failed to play: " \o r.err)]
    ELSE IF IsSome(get_current_track(p))
    THEN [player |-> play(p, t), playlist |-> pl, response |-> Ok]
    ELSE
        LET cur == current(pl)
            n == next(pl)
            first_track == IF IsSome(cur) THEN cur ELSE n.ret
            pl1 == IF IsSome(cur) THEN pl ELSE n.playlist
        IN  IF IsSome(first_track)
            THEN LET r == load_track(p, Unwrap(first_track), t) IN
                 [player |-> r.player, playlist |-> pl1,
                  response |->
                      IF r.ok THEN Ok
                      ELSE Error("Failed to play first track: " \o r.err)]
            ELSE [player |-> p, playlist |-> pl1,
                  response |-> Error("Failed to get track from playlist")]

\* Play { path: Some(_) } that moves the cursor to the path it loaded
handle_play_selects_path(p, pl, path, t) ==
    IF IsSome(path)
    THEN LET r == load_track(p, Unwrap(path), t) IN
         [player |-> r.player,
          playlist |->
              IF /\ r.ok
                 /\ \E k \in 1..Len(pl.tracks) : pl.tracks[k] = Unwrap(path)
              THEN [pl EXCEPT !.current_index =
                       Some((CHOOSE k \in 1..Len(pl.tracks) :
                                 pl.tracks[k] = Unwrap(path)) - 1)]
              ELSE pl,
          response |-> IF r.ok THEN Ok
                       ELSE Error("Failed to play: " \o r.err)]
    ELSE IF IsSome(get_current_track(p))
    THEN [player |-> play(p, t), playlist |-> pl, response |-> Ok]
    ELSE IF playlist_is_empty(pl)
    THEN [player |-> p, playlist |-> pl,
          response |-> Error("Playlist is empty")]
    ELSE
        \* playlist.current().or_else(|| playlist.next())
        LET cur == current(pl)
            n == next(pl)
            first_track == IF IsSome(cur) THEN cur ELSE n.ret
            pl1 == IF IsSome(cur) THEN pl ELSE n.playlist
        IN  IF IsSome(first_track)
            THEN LET r == load_track(p, Unwrap(first_track), t) IN
                 [player |-> r.player, playlist |-> pl1,
                  response |->
                      IF r.ok THEN Ok
                      ELSE Error("Failed to play first track: " \o r.err)]
            ELSE [player |-> p, playlist |-> pl1,
                  response |-> Error("Failed to get track from playlist")]

\* Command::Play { path }
handle_play(p, pl, path, t) ==
    IF IsSome(path)
    THEN LET r == load_track(p, Unwrap(path), t) IN
         [player |-> r.player, playlist |-> pl,
          response |-> IF r.ok THEN Ok
                       ELSE Error("Failed to play: " \o r.err)]
    ELSE IF IsSome(get_current_track(p))
    THEN [player |-> play(p, t), playlist |-> pl, response |-> Ok]
    ELSE IF playlist_is_empty(pl)
    THEN [player |-> p, playlist |-> pl,
          response |-> Error("Playlist is empty")]
    ELSE
        \* playlist.current().or_else(|| playlist.next())
        LET cur == current(pl)
            n == next(pl)
            first_track == IF IsSome(cur) THEN cur ELSE n.ret
            pl1 == IF IsSome(cur) THEN pl ELSE n.playlist
        IN  IF IsSome(first_track)
            THEN LET r == load_track(p, Unwrap(first_track), t) IN
                 [player |-> r.player, playlist |-> pl1,
                  response |->
                      IF r.ok THEN Ok
                      ELSE Error("Failed to play first track: " \o r.err)]
            ELSE [player |-> p, playlist |-> pl1,
                  response |-> Error("Failed to get track from playlist")]

\* a status that numbers the cursor from one
get_status_from_one(p, pl, t) ==
    [state |-> get_state(p),
     current_track |-> get_current_track(p),
     position |-> get_position(p, t),
     duration |-> get_duration(p),
     volume |-> get_volume(p),
     playlist_length |-> len(pl),
     current_index |->
         IF IsSome(current_index(pl))
         THEN Some(Unwrap(current_index(pl)) + 1) ELSE None]

\* Command::GetStatus : the PlayerStatus snapshot
get_status(p, pl, t) ==
    [state |-> get_state(p),
     current_track |-> get_current_track(p),
     position |-> get_position(p, t),
     duration |-> get_duration(p),
     volume |-> get_volume(p),
     playlist_length |-> len(pl),
     current_index |-> current_index(pl)]

\* the second match of handle_command: the dispatch on the command
dispatch(p, pl, command, t) ==
    CASE command.type = "Play" -> handle_play(p, pl, command.path, t)
      [] command.type = "Pause" ->
            [player |-> pause(p, t), playlist |-> pl, response |-> Ok]
      [] command.type = "Stop" ->
            [player |-> stop(p), playlist |-> pl, response |-> Ok]
      [] command.type = "Next" -> next_loop(p, pl, t, MaxAttempts)
      [] command.type = "Previous" -> previous_loop(p, pl, t, MaxAttempts)
      [] command.type = "SetVolume" ->
            [player |-> set_volume(p, command.level), playlist |-> pl,
             response |-> Ok]
      [] command.type = "AddTracks" ->
            [player |-> p, playlist |-> add_tracks(pl, command.paths),
             response |-> Ok]
      [] command.type = "GetStatus" ->
            [player |-> p, playlist |-> pl,
             response |-> Status(get_status(p, pl, t))]
      [] command.type = "GetPlaylist" ->
            [player |-> p, playlist |-> pl,
             response |-> PlaylistResponse(get_tracks(pl))]
      [] command.type = "ClearPlaylist" ->
            [player |-> p, playlist |-> clear(pl), response |-> Ok]
      [] command.type = "Shutdown" ->
            \* std::process::exit(0): no response is produced
            [player |-> p, playlist |-> pl, response |-> NoResponse]

\* handle_command at instant t
handle_command(p, pl, lmc, command, t) ==
    LET d == dispatch(p, pl, command, t)
    IN  [player |-> d.player,
         playlist |-> d.playlist,
         last_manual_command |-> IF StampsManual(command) THEN t ELSE lmc,
         response |-> d.response,
         exit |-> command.type = "Shutdown"]

\* the tick condition with >= in place of >
auto_advance_due_at_two(p, lmc, t) ==
    /\ t - lmc >= QuietSecs
    /\ is_empty(p)
    /\ get_state(p) = "Playing"

\* the condition of the tick branch of run()
auto_advance_due(p, lmc, t) ==
    /\ t - lmc > QuietSecs
    /\ is_empty(p)
    /\ get_state(p) = "Playing"

\* a tick body that puts the cursor back when its load fails
tick_rewinds_on_failure(p, pl, lmc, t) ==
    IF auto_advance_due(p, lmc, t)
    THEN LET n == next(pl) IN
         IF IsSome(n.ret)
         THEN LET r == load_track(p, Unwrap(n.ret), t) IN
              [player |-> r.player,
               playlist |-> IF r.ok THEN n.playlist ELSE pl]
         ELSE [player |-> p, playlist |-> n.playlist]
    ELSE [player |-> p, playlist |-> pl]

\* a tick body that loads the current track instead of the next one
tick_reloads_current(p, pl, lmc, t) ==
    IF auto_advance_due(p, lmc, t)
    THEN IF IsSome(current(pl))
         THEN [player |-> load_track(p, Unwrap(current(pl)), t).player,
               playlist |-> pl]
         ELSE [player |-> p, playlist |-> pl]
    ELSE [player |-> p, playlist |-> pl]

\* the body of the tick branch of run()
tick(p, pl, lmc, t) ==
    IF auto_advance_due(p, lmc, t)
    THEN LET n == next(pl) IN
         IF IsSome(n.ret)
         THEN [player |-> load_track(p, Unwrap(n.ret), t).player,
               playlist |-> n.playlist]
         ELSE [player |-> p, playlist |-> n.playlist]
    ELSE [player |-> p, playlist |-> pl]

\* the task that runs run(), at the head of its loop: no connection is being
\* served, no tick body is running, no playlist guard is alive; last tells
\* how the latest branch body ended
Task_new ==
    [conn |-> "none", tick |-> "idle", command |-> None, guard |-> FALSE,
     candidate |-> None, left |-> 0, out |-> NoResponse, last |-> "none"]

----------------------------------------------------------------------------
(* The inputs the environment sends *)

\* paths named in Play { path: Some(_) }
PlayPaths == {"a.mp3", "gone.mp3"}

\* levels sent in SetVolume (u8)
Levels == {150}

\* path lists sent in AddTracks
AddLists ==
    {<<"a.mp3">>, <<"music">>, <<"a.mp3", "music/bad.flac">>,
     <<"notes.txt", "gone.mp3">>}

Commands ==
    {CmdPlay(None)} \cup {CmdPlay(Some(path)) : path \in PlayPaths}
    \cup {CmdPause, CmdStop, CmdNext, CmdPrevious}
    \cup {CmdSetVolume(level) : level \in Levels}
    \cup {CmdAddTracks(paths) : paths \in AddLists}
    \cup {CmdGetStatus, CmdGetPlaylist, CmdClearPlaylist, CmdShutdown}

----------------------------------------------------------------------------
(* The daemon as a state machine *)

Init ==
    /\ playlist = Playlist_new
    /\ player = Player_new
    /\ now = 0
    /\ last_manual_command = 0 - InitialPastSecs
    /\ response = NoResponse
    /\ running = TRUE
    /\ lastOp = "new"
    /\ run = <<>>
    /\ task = Task_new
    /\ played = 0
    /\ lock = Lock_new
    /\ thread = [i \in 1..MaxCallers |-> Caller_new]

\* accept branch of run(): one connection is accepted, its command received,
\* handled and answered
HandleCommand(command) ==
    /\ running
    /\ LET r == handle_command(player, playlist, last_manual_command,
                               command, now)
       IN  /\ len(r.playlist) <= MaxTracks
           /\ player' = r.player
           /\ playlist' = r.playlist
           /\ last_manual_command' = r.last_manual_command
           /\ response' = r.response
           /\ running' = ~r.exit
    /\ UNCHANGED <<now, lastOp, run, task, played, lock, thread>>

Connection == \E command \in Commands : HandleCommand(command)

\* accept branch of run(): conn.recv() fails, nothing is handled or sent
RecvError ==
    /\ running
    /\ response' = NoResponse
    /\ UNCHANGED <<playlist, player, last_manual_command, now, running,
                   lastOp, run,
                   task, played, lock, thread>>

\* tick branch of run()
Tick ==
    /\ running
    /\ LET r == tick(player, playlist, last_manual_command, now)
       IN  /\ player' = r.player
           /\ playlist' = r.playlist
    /\ response' = NoResponse
    /\ UNCHANGED <<last_manual_command, now, running, lastOp, run,
                   task, played, lock, thread>>

\* the audio thread plays the queued source to its end
SinkDrain ==
    /\ running
    /\ player.sink.len > 0
    /\ ~player.sink.paused
    /\ player' = [player EXCEPT !.sink = [@ EXCEPT !.len = 0]]
    /\ response' = NoResponse
    /\ UNCHANGED <<playlist, last_manual_command, now, running, lastOp, run,
                   task, played, lock, thread>>

\* one second passes
Pass ==
    /\ running
    /\ now < MaxTime
    /\ now' = now + 1
    /\ response' = NoResponse
    /\ UNCHANGED <<playlist, player, last_manual_command, running, lastOp, run,
                   task, played, lock, thread>>

Next == Connection \/ RecvError \/ Tick \/ SinkDrain \/ Pass

Spec == Init /\ [][Next]_vars

----------------------------------------------------------------------------
(* The Playlist alone, driven method by method *)

\* paths handed to add_track
TrackPaths == Files \cup Dirs \cup {"gone.mp3"}

\* one call of next() or previous(): the cursor before, the value returned,
\* the cursor after
Call(before, r) ==
    [before |-> before.current_index, ret |-> r.ret,
     after |-> r.playlist.current_index]

CallAddTrack(path) ==
    /\ len(add_track(playlist, path)) <= MaxTracks
    /\ playlist' = add_track(playlist, path)
    /\ lastOp' = "add_track"
    /\ run' = <<>>
    /\ UNCHANGED <<player, last_manual_command, now, response, running,
                   task, played, lock, thread>>

CallClear ==
    /\ playlist' = clear(playlist)
    /\ lastOp' = "clear"
    /\ run' = <<>>
    /\ UNCHANGED <<player, last_manual_command, now, response, running,
                   task, played, lock, thread>>

CallNext ==
    /\ lastOp = "next" => Len(run) < MaxRun
    /\ playlist' = next(playlist).playlist
    /\ lastOp' = "next"
    /\ run' = IF lastOp = "next"
              THEN Append(run, Call(playlist, next(playlist)))
              ELSE <<Call(playlist, next(playlist))>>
    /\ UNCHANGED <<player, last_manual_command, now, response, running,
                   task, played, lock, thread>>

CallPrevious ==
    /\ lastOp = "previous" => Len(run) < MaxRun
    /\ playlist' = previous(playlist).playlist
    /\ lastOp' = "previous"
    /\ run' = IF lastOp = "previous"
              THEN Append(run, Call(playlist, previous(playlist)))
              ELSE <<Call(playlist, previous(playlist))>>
    /\ UNCHANGED <<player, last_manual_command, now, response, running,
                   task, played, lock, thread>>

NextPlaylist ==
    \/ \E path \in TrackPaths : CallAddTrack(path)
    \/ CallClear
    \/ CallNext
    \/ CallPrevious

SpecPlaylist == Init /\ [][NextPlaylist]_vars

----------------------------------------------------------------------------
(* The daemon driven by volume commands over the whole range of u8 *)

\* u8::MAX : the largest level a SetVolume command can carry
U8Max == 255

\* every level of SetVolume { level: u8 }
AllLevels == 0..U8Max

VolumeCommands ==
    {CmdSetVolume(level) : level \in AllLevels}
    \cup {CmdGetStatus, CmdPlay(Some("a.mp3")), CmdStop}

NextVolume == \E command \in VolumeCommands : HandleCommand(command)

SpecVolume == Init /\ [][NextVolume]_vars

----------------------------------------------------------------------------
(* The daemon on long playlists, driven by Next and Previous *)

RetryLen == 7

RetryCommands ==
    {CmdAddTracks(<<"a.mp3">>), CmdAddTracks(<<"music/bad.flac">>),
     CmdNext, CmdPrevious}

\* accept branch of run(), the playlist growing up to RetryLen tracks
HandleRetry(command) ==
    /\ running
    /\ LET r == handle_command(player, playlist, last_manual_command,
                               command, now)
       IN  /\ len(r.playlist) <= RetryLen
           /\ player' = r.player
           /\ playlist' = r.playlist
           /\ last_manual_command' = r.last_manual_command
           /\ response' = r.response
           /\ running' = ~r.exit
    /\ UNCHANGED <<now, lastOp, run, task, played, lock, thread>>

NextRetry == \E command \in RetryCommands : HandleRetry(command)

SpecRetry == Init /\ [][NextRetry]_vars

----------------------------------------------------------------------------
(* The daemon left to its auto-advance: lastOp tells whether the latest    *)
(* load attempt of a tick failed ("tick_failed") or succeeded              *)
(* ("tick_loaded"), and is "command" once a command has been handled.      *)

AutoLen == 3

AutoCommands ==
    {CmdAddTracks(<<"a.mp3">>), CmdAddTracks(<<"music/bad.flac">>),
     CmdPlay(None), CmdNext}

\* accept branch of run(), the playlist growing up to AutoLen tracks
HandleAuto(command) ==
    /\ running
    /\ LET r == handle_command(player, playlist, last_manual_command,
                               command, now)
       IN  /\ len(r.playlist) <= AutoLen
           /\ player' = r.player
           /\ playlist' = r.playlist
           /\ last_manual_command' = r.last_manual_command
           /\ response' = r.response
           /\ running' = ~r.exit
    /\ lastOp' = "command"
    /\ UNCHANGED <<now, run, task, played, lock, thread>>

\* tick branch of run()
TickAuto ==
    /\ running
    /\ LET r == tick(player, playlist, last_manual_command, now)
           n == next(playlist)
       IN  /\ player' = r.player
           /\ playlist' = r.playlist
           /\ lastOp' =
                  IF /\ auto_advance_due(player, last_manual_command, now)
                     /\ IsSome(n.ret)
                  THEN IF load_track(player, Unwrap(n.ret), now).ok
                       THEN "tick_loaded" ELSE "tick_failed"
                  ELSE lastOp
    /\ response' = NoResponse
    /\ UNCHANGED <<last_manual_command, now, running, run, task, played,
                   lock, thread>>

NextAuto ==
    \/ \E command \in AutoCommands : HandleAuto(command)
    \/ TickAuto
    \/ SinkDrain
    \/ Pass

SpecAuto == Init /\ [][NextAuto]_vars

\* the interval timer keeps firing: a tick that would change something is
\* not put off for ever
SpecAutoFair == SpecAuto /\ WF_vars(TickAuto)

\* besides the timer, the audio thread keeps consuming the queued source: a
\* track that plays comes to its end
SpecAutoPlays == SpecAuto /\ WF_vars(TickAuto) /\ WF_vars(SinkDrain)

----------------------------------------------------------------------------
(* The Player alone, driven method by method *)

\* paths handed to load_track
LoadPaths == {"a.mp3", "music/c.OGG", "music/bad.flac", "gone.mp3"}

CallLoadTrack(path) ==
    /\ LET r == load_track(player, path, now)
       IN  /\ player' = r.player
           /\ played' = IF r.ok THEN 0 ELSE played
    /\ lastOp' = "load_track"
    /\ UNCHANGED <<playlist, last_manual_command, now, response, running, run,
                   task, lock, thread>>

CallPlay ==
    /\ player' = play(player, now)
    /\ lastOp' = "play"
    /\ UNCHANGED <<playlist, last_manual_command, now, response, running, run,
                   task, played, lock, thread>>

CallPause ==
    /\ player' = pause(player, now)
    /\ lastOp' = "pause"
    /\ UNCHANGED <<playlist, last_manual_command, now, response, running, run,
                   task, played, lock, thread>>

CallStop ==
    /\ player' = stop(player)
    /\ lastOp' = "stop"
    /\ UNCHANGED <<playlist, last_manual_command, now, response, running, run,
                   task, played, lock, thread>>

\* one second passes; it counts as played if the state is Playing
Elapse ==
    /\ now < MaxTime
    /\ now' = now + 1
    /\ played' = IF player.state = "Playing" THEN played + 1 ELSE played
    /\ lastOp' = "elapse"
    /\ UNCHANGED <<playlist, player, last_manual_command, response, running,
                   run, task, lock, thread>>

NextPlayer ==
    \/ \E path \in LoadPaths : CallLoadTrack(path)
    \/ CallPlay
    \/ CallPause
    \/ CallStop
    \/ Elapse
    \/ SinkDrain

SpecPlayer == Init /\ [][NextPlayer]_vars

----------------------------------------------------------------------------
(* The Player called by several callers at once, each method advancing one *)
(* lock() or one dropped guard at a time.                                  *)

Callers == 1..MaxCallers

\* the calls made: every method of impl Player
PlayerCalls ==
    {[op |-> "load_track", arg |-> "a.mp3", level |-> 0],
     [op |-> "load_track", arg |-> "gone.mp3", level |-> 0],
     [op |-> "play", arg |-> "", level |-> 0],
     [op |-> "pause", arg |-> "", level |-> 0],
     [op |-> "stop", arg |-> "", level |-> 0],
     [op |-> "set_volume", arg |-> "", level |-> 150],
     [op |-> "is_empty", arg |-> "", level |-> 0],
     [op |-> "get_volume", arg |-> "volume", level |-> 0],
     [op |-> "get_state", arg |-> "state", level |-> 0],
     [op |-> "get_current_track", arg |-> "current_track", level |-> 0],
     [op |-> "get_duration", arg |-> "duration", level |-> 0],
     [op |-> "get_position", arg |-> "", level |-> 0]}

RECURSIVE CallsUpTo(_)
\* the calls made so far by callers 1..n
CallsUpTo(n) == IF n = 0 THEN 0 ELSE thread[n].calls + CallsUpTo(n - 1)

\* the step caller i is about to take
StepOf(i) ==
    step_of(thread[i].op, thread[i].pc, thread[i].arg, thread[i].level,
            player, thread[i].local, now)

\* caller i is inside a method and the Mutex it asks for is held
Blocked(i) ==
    /\ thread[i].pc # 0
    /\ StepOf(i).wait # NoLock
    /\ lock[StepOf(i).wait] # 0

\* caller i enters a method; with rec the call also notes what it found:
\* the Player, the Writer's count of calls and whether it was inside one
CallMethod(i, c, rec) ==
    /\ thread[i].pc = 0
    /\ CallsUpTo(MaxCallers) < MaxCalls
    /\ thread' =
           [thread EXCEPT ![i] =
               [Caller_new EXCEPT
                   !.op = c.op, !.arg = c.arg, !.level = c.level, !.pc = 1,
                   !.calls = thread[i].calls + 1,
                   !.before = IF rec THEN player ELSE @,
                   !.c0 = IF rec THEN thread[Writer].calls ELSE @,
                   !.m0 = IF rec THEN thread[Writer].pc # 0 ELSE @]]
    /\ UNCHANGED <<playlist, player, last_manual_command, now, response,
                   running, lastOp, run, task, played, lock>>

\* caller i takes the next step of its method: a lock() that finds the
\* Mutex free, or the drop of a guard; with rec the value returned is kept
\* with the instant and the Writer's count of calls at the return
Step(i, rec) ==
    /\ thread[i].pc # 0
    /\ ~Blocked(i)
    /\ LET s == StepOf(i)
       IN  /\ lock' = [l \in LockNames |->
                          IF l = s.wait THEN i
                          ELSE IF l = s.free THEN 0
                          ELSE lock[l]]
           /\ player' = s.player
           /\ thread' =
                  [thread EXCEPT ![i] =
                      IF s.pc # 0
                      THEN [@ EXCEPT !.pc = s.pc, !.local = s.local]
                      ELSE IF rec
                      THEN [@ EXCEPT !.pc = 0, !.local = 0,
                                     !.result = s.result,
                                     !.c1 = thread[Writer].calls,
                                     !.at = now]
                      ELSE [Caller_new EXCEPT !.calls = thread[i].calls]]
    /\ UNCHANGED <<playlist, last_manual_command, now, response, running,
                   lastOp, run, task, played>>

NextLocks ==
    \/ \E i \in Callers : \E c \in PlayerCalls : CallMethod(i, c, FALSE)
    \/ \E i \in Callers : Step(i, FALSE)

SpecLocks == Init /\ [][NextLocks]_vars

----------------------------------------------------------------------------
(* One caller mutating the Player while another reads its position.  A     *)
(* method takes far less than a second: the clock moves only between       *)
(* calls.                                                                  *)

\* the calls of the mutating caller
WriterCalls ==
    {[op |-> "load_track", arg |-> "a.mp3", level |-> 0],
     [op |-> "play", arg |-> "", level |-> 0],
     [op |-> "pause", arg |-> "", level |-> 0],
     [op |-> "stop", arg |-> "", level |-> 0]}

\* the call of the reading caller
ReaderCalls == {[op |-> "get_position", arg |-> "", level |-> 0]}

\* one second passes while no caller is inside a method
ElapseIdle ==
    /\ \A i \in Callers : thread[i].pc = 0
    /\ now < MaxTime
    /\ now' = now + 1
    /\ UNCHANGED <<playlist, player, last_manual_command, response, running,
                   lastOp, run, task, played, lock, thread>>

NextRead ==
    \/ \E c \in WriterCalls : CallMethod(Writer, c, TRUE)
    \/ \E c \in ReaderCalls : CallMethod(Reader, c, TRUE)
    \/ Step(Writer, TRUE)
    \/ Step(Reader, TRUE)
    \/ ElapseIdle

SpecRead == Init /\ [][NextRead]_vars

----------------------------------------------------------------------------
(* run() step by step: each await of the loop and each load_track call is  *)
(* a step of its own.  task.conn tells how far the accept branch has got   *)
(* with its connection, task.tick how far the tick branch has got, and     *)
(* task.guard whether a MutexGuard of the playlist is alive.               *)

\* the select! of a loop that hands each connection to a task of its own
at_select_spawning(t) == t.tick = "idle"

\* tokio::select! at the head of the loop: both branch bodies have finished
at_select(t) == t.conn = "none" /\ t.tick = "idle"

\* conn.send(response).await? : the Err of a failed write leaves run()
run_after_send_propagated(ok) == ok

\* whether run() goes on after conn.send returned: the Err is only logged
run_after_send(ok) == TRUE

\* a Shutdown arm that answers like the other commands and returns
exits_never(command) == FALSE

\* Command::Shutdown calls std::process::exit(0)
exits(command) == command.type = "Shutdown"

\* playlist.next() of Command::Next, playlist.previous() of Command::Previous
pop(pl, type) == IF type = "Next" THEN next(pl) ELSE previous(pl)

\* the Error that follows the loop of Command::Next or Command::Previous
exhausted(type) ==
    IF type = "Next" THEN Error("No playable next track found")
    ELSE Error("No playable previous track found")

\* the head of the loop of Next or Previous with k iterations left: a
\* candidate is popped under the guard and the guard is dropped before the
\* load; after the loop, or on None, the Error is the response
try_candidate(t, pl, type, k) ==
    LET n == pop(pl, type) IN
    IF k > 0 /\ IsSome(n.ret)
    THEN [playlist |-> n.playlist,
          task |-> [t EXCEPT !.conn = "loading", !.candidate = n.ret,
                             !.left = k, !.guard = FALSE]]
    ELSE [playlist |-> IF k > 0 THEN n.playlist ELSE pl,
          task |-> [t EXCEPT !.conn = "responding", !.candidate = None,
                             !.left = 0, !.guard = FALSE,
                             !.out = exhausted(type)]]

\* handle_command up to its first load_track call, or up to its response if
\* the command loads nothing
begin_command(t, p, pl, command, clock) ==
    IF command.type = "Play" /\ IsSome(command.path)
    THEN [player |-> p, playlist |-> pl,
          task |-> [t EXCEPT !.conn = "loading", !.candidate = command.path]]
    ELSE IF /\ command.type = "Play"
            /\ ~IsSome(get_current_track(p))
            /\ ~playlist_is_empty(pl)
    THEN \* playlist.current().or_else(|| playlist.next()), then drop(playlist)
         LET cur == current(pl)
             n == next(pl)
         IN  [player |-> p,
              playlist |-> IF IsSome(cur) THEN pl ELSE n.playlist,
              task |-> [t EXCEPT !.conn = "loading", !.guard = FALSE,
                                 !.candidate =
                                     IF IsSome(cur) THEN cur ELSE n.ret]]
    ELSE IF command.type \in {"Next", "Previous"}
    THEN LET c == try_candidate(t, pl, command.type, MaxAttempts)
         IN  [player |-> p, playlist |-> c.playlist, task |-> c.task]
    ELSE LET d == dispatch(p, pl, command, clock)
         IN  [player |-> d.player, playlist |-> d.playlist,
              task |-> [t EXCEPT !.conn = "responding", !.guard = FALSE,
                                 !.out = d.response]]

\* handle_command from the return of load_track on: Ok ends the command, an
\* Err ends Play with an Error and sends Next and Previous round their loop
end_load(t, p, pl, clock) ==
    LET command == Unwrap(t.command)
        r == load_track(p, Unwrap(t.candidate), clock)
    IN  IF r.ok
        THEN [player |-> r.player, playlist |-> pl,
              task |-> [t EXCEPT !.conn = "responding", !.candidate = None,
                                 !.left = 0, !.out = Ok]]
        ELSE IF command.type = "Play"
        THEN [player |-> r.player, playlist |-> pl,
              task |-> [t EXCEPT
                  !.conn = "responding", !.candidate = None,
                  !.out = Error((IF IsSome(command.path)
                                 THEN "Failed to play: "
                                 ELSE "Failed to play first track: ")
                                \o r.err)]]
        ELSE LET c == try_candidate(t, pl, command.type, t.left - 1)
             IN  [player |-> r.player, playlist |-> c.playlist,
                  task |-> c.task]

\* the commands sent to the step-by-step loop
LoopCommands ==
    {CmdPlay(None), CmdPlay(Some("gone.mp3")), CmdPause, CmdStop, CmdNext,
     CmdPrevious, CmdAddTracks(<<"a.mp3">>),
     CmdAddTracks(<<"a.mp3", "music/bad.flac">>), CmdGetStatus, CmdShutdown}

\* self.ipc_server.accept() completes with a connection
Accept ==
    /\ running
    /\ at_select(task)
    /\ task' = [task EXCEPT !.conn = "accepted"]
    /\ response' = NoResponse
    /\ UNCHANGED <<playlist, player, last_manual_command, now, running,
                   lastOp, run,
                   played, lock, thread>>

\* self.ipc_server.accept() completes with an Err: the branch sleeps 100 ms
AcceptFailed ==
    /\ running
    /\ at_select(task)
    /\ task' = [task EXCEPT !.conn = "sleeping"]
    /\ response' = NoResponse
    /\ UNCHANGED <<playlist, player, last_manual_command, now, running,
                   lastOp, run,
                   played, lock, thread>>

\* the sleep after a failed accept is over
SleepDone ==
    /\ running
    /\ task.conn = "sleeping"
    /\ task' = [task EXCEPT !.conn = "none", !.last = "accept_failed"]
    /\ response' = NoResponse
    /\ UNCHANGED <<playlist, player, last_manual_command, now, running,
                   lastOp, run,
                   played, lock, thread>>

\* conn.recv() returns a decoded command
Recv(command) ==
    /\ running
    /\ task.conn = "accepted"
    /\ len(dispatch(player, playlist, command, now).playlist) <= MaxTracks
    /\ task' = [task EXCEPT !.conn = "received", !.command = Some(command)]
    /\ response' = NoResponse
    /\ UNCHANGED <<playlist, player, last_manual_command, now, running,
                   lastOp, run,
                   played, lock, thread>>

\* a recv Err branch that answers the connection with an Error
RecvFailed_answers ==
    /\ running
    /\ task.conn = "accepted"
    /\ task' = [task EXCEPT !.conn = "none", !.last = "recv_failed"]
    /\ response' = Error("Failed to parse command")
    /\ UNCHANGED <<playlist, player, last_manual_command, now, running,
                   lastOp, run,
                   played, lock, thread>>

\* conn.recv() returns an Err (closed stream or undecodable line): nothing
\* is handled, nothing is sent
RecvFailed ==
    /\ running
    /\ task.conn = "accepted"
    /\ task' = [task EXCEPT !.conn = "none", !.last = "recv_failed"]
    /\ response' = NoResponse
    /\ UNCHANGED <<playlist, player, last_manual_command, now, running,
                   lastOp, run,
                   played, lock, thread>>

\* handle_command starts: the stamp, then the arm of the command up to its
\* first load or its response; Shutdown exits the process
Dispatch ==
    /\ running
    /\ task.conn = "received"
    /\ LET command == Unwrap(task.command)
           b == begin_command(task, player, playlist, command, now)
       IN  /\ last_manual_command' =
                  IF StampsManual(command) THEN now ELSE last_manual_command
           /\ player' = b.player
           /\ playlist' = b.playlist
           /\ running' = ~exits(command)
           /\ task' = IF exits(command) THEN task ELSE b.task
    /\ response' = NoResponse
    /\ UNCHANGED <<now, lastOp, run,
                   played, lock, thread>>

\* the load_track call of a command returns
LoadTrack ==
    /\ running
    /\ task.conn = "loading"
    /\ LET e == end_load(task, player, playlist, now)
       IN  /\ player' = e.player
           /\ playlist' = e.playlist
           /\ task' = e.task
    /\ response' = NoResponse
    /\ UNCHANGED <<last_manual_command, now, running, lastOp, run,
                   played, lock, thread>>

\* conn.send(response) returns, Ok or Err, and the accept branch is over
Send(ok) ==
    /\ running
    /\ task.conn = "responding"
    /\ response' = IF ok THEN task.out ELSE NoResponse
    /\ running' = run_after_send(ok)
    /\ task' = [Task_new EXCEPT !.last = IF ok THEN "sent" ELSE "send_failed"]
    /\ UNCHANGED <<playlist, player, last_manual_command, now, lastOp, run,
                   played, lock, thread>>

\* a tick body that runs as soon as the timer fires, whatever the accept
\* branch is waiting for
TickBody_preempts ==
    /\ running
    /\ task.tick = "idle"
    /\ task.conn \in {"none", "accepted"}
    /\ IF auto_advance_due(player, last_manual_command, now)
       THEN LET n == next(playlist)
            IN  /\ playlist' = n.playlist
                /\ task' = IF IsSome(n.ret)
                           THEN [task EXCEPT !.tick = "loading",
                                             !.candidate = n.ret,
                                             !.guard = TRUE]
                           ELSE task
       ELSE UNCHANGED <<playlist, task, played, lock, thread>>
    /\ response' = NoResponse
    /\ UNCHANGED <<player, last_manual_command, now, running, lastOp, run,
                   played, lock, thread>>

\* next_track_check.tick() completes: the condition, and playlist.next()
\* under a guard that lives to the end of the `if let`, over the load
TickBody ==
    /\ running
    /\ at_select(task)
    /\ IF auto_advance_due(player, last_manual_command, now)
       THEN LET n == next(playlist)
            IN  /\ playlist' = n.playlist
                /\ task' = IF IsSome(n.ret)
                           THEN [task EXCEPT !.tick = "loading",
                                             !.candidate = n.ret,
                                             !.guard = TRUE]
                           ELSE task
       ELSE UNCHANGED <<playlist, task, played, lock, thread>>
    /\ response' = NoResponse
    /\ UNCHANGED <<player, last_manual_command, now, running, lastOp, run,
                   played, lock, thread>>

\* a tick branch that, when its load fails, pops the track after it and
\* loads again
TickLoad_retries ==
    /\ running
    /\ task.tick = "loading"
    /\ LET r == load_track(player, Unwrap(task.candidate), now)
           n == next(playlist)
       IN  /\ player' = r.player
           /\ playlist' = IF r.ok THEN playlist ELSE n.playlist
           /\ task' = IF r.ok \/ ~IsSome(n.ret)
                      THEN [Task_new EXCEPT !.last = "ticked"]
                      ELSE [task EXCEPT !.candidate = n.ret]
    /\ response' = NoResponse
    /\ UNCHANGED <<last_manual_command, now, running, lastOp, run,
                   played, lock, thread>>

\* the load_track call of the tick branch returns; its Err is dropped
TickLoad ==
    /\ running
    /\ task.tick = "loading"
    /\ player' = load_track(player, Unwrap(task.candidate), now).player
    /\ task' = [Task_new EXCEPT !.last = "ticked"]
    /\ response' = NoResponse
    /\ UNCHANGED <<playlist, last_manual_command, now, running, lastOp, run,
                   played, lock, thread>>

NextLoop ==
    \/ Accept
    \/ AcceptFailed
    \/ SleepDone
    \/ \E command \in LoopCommands : Recv(command)
    \/ RecvFailed
    \/ Dispatch
    \/ LoadTrack
    \/ \E ok \in BOOLEAN : Send(ok)
    \/ TickBody
    \/ TickLoad
    \/ SinkDrain
    \/ Pass

SpecLoop == Init /\ [][NextLoop]_vars

----------------------------------------------------------------------------
(* Properties *)

Position == get_position(player, now)

\* the commands that neither load a track nor stop the player
NoLoadCommands ==
    {c \in Commands : c.type \in {"Pause", "SetVolume", "AddTracks",
                                  "GetStatus", "GetPlaylist",
                                  "ClearPlaylist"}}

\* a step between two loads: time passes, the sink drains, play() resumes
\* the current track, or a command that does not load is handled
BetweenLoads ==
    \/ Pass
    \/ SinkDrain
    \/ IsSome(player.current_track) /\ HandleCommand(CmdPlay(None))
    \/ \E c \in NoLoadCommands : HandleCommand(c)

\* C1: between two loads, a position read while Playing is never lower than
\* the read before it, also while Playing; in particular play() while
\* already Playing does not lower the position.
C1_PositionNonDecreasing ==
    [][(BetweenLoads /\ player.state = "Playing" /\ player'.state = "Playing")
          => get_position(player', now') >= get_position(player, now)]_vars

\* C2: whenever the state is Paused, start_time is None, the position is
\* paused_position, and a read at any later instant returns that same value.
C2_PausedFrozen ==
    player.state = "Paused" =>
        /\ player.start_time = None
        /\ Position = player.paused_position
        /\ \A t \in now..(MaxTime + 1) :
               get_position(player, t) = player.paused_position

\* a paused track with one second played, read two seconds after the pause
C2_Witness ==
    /\ player.state = "Paused"
    /\ IsSome(player.current_track)
    /\ player.paused_position = 1
    /\ now = 3

\* C3: after any sequence of add, clear, next and previous the cursor is
\* None or a valid index, and an empty playlist has cursor None.
C3_CursorValid ==
    /\ \/ playlist.current_index = None
       \/ /\ 0 <= Unwrap(playlist.current_index)
          /\ Unwrap(playlist.current_index) < Len(playlist.tracks)
    /\ playlist.tracks = <<>> => playlist.current_index = None

\* the cursor on the last of at least two tracks, reached by next()
C3_Witness ==
    /\ lastOp = "next"
    /\ Len(playlist.tracks) >= 2
    /\ playlist.current_index = Some(Len(playlist.tracks) - 1)

\* the three conditions of auto-advance, stated on the fields they read
QuietIdlePlaying ==
    /\ now - last_manual_command > QuietSecs
    /\ player.sink.len = 0
    /\ player.state = "Playing"

\* C4: a tick acts only when more than 2 seconds have passed since the last
\* manual command, the sink is idle and the state is Playing; otherwise it
\* leaves the player, the playlist and last_manual_command unchanged.  A tick
\* never touches last_manual_command.
C4_TickGuarded ==
    [][Tick =>
          /\ last_manual_command' = last_manual_command
          /\ \/ QuietIdlePlaying
             \/ player' = player /\ playlist' = playlist]_vars

\* a track loaded by a tick: it started later than the quiet window after
\* the last manual command
C4_Witness ==
    /\ last_manual_command >= 0
    /\ player.state = "Playing"
    /\ IsSome(player.start_time)
    /\ Unwrap(player.start_time) > last_manual_command + QuietSecs

\* the Play, Next, Previous and Stop commands
TrackChanging ==
    {c \in Commands : c.type \in {"Play", "Next", "Previous", "Stop"}}

\* C5: every handled Play, Next, Previous or Stop sets last_manual_command to
\* the current time, whatever the response.
C5_ManualStamped ==
    [][\A c \in TrackChanging :
          HandleCommand(c) => last_manual_command' = now]_vars

\* Play{path: None} on the empty playlist answered Error, and stamped
C5_Witness ==
    /\ response = Error("Playlist is empty")
    /\ now > 0
    /\ player = Player_new
    /\ last_manual_command = now

\* C6: a load that fails returns the failure and leaves every Player field
\* and the sink as they were, from whatever state it is called in.
C6_FailedLoadNoMutation ==
    \A path \in TrackPaths :
        LET r == load_track(player, path, now)
        IN  ~r.ok => r.player = player /\ r.err # ""

\* Play of an unreadable path answered Error while a track is paused
C6_Witness ==
    /\ response = Error("Failed to play: Failed to read audio file")
    /\ player.state = "Paused"
    /\ IsSome(player.current_track)
    /\ player.sink.len = 1

\* C7: from cursor None on n >= 1 tracks, the i-th of n successive next()
\* calls returns tracks[i-1] and leaves cursor Some(i-1); the (n+1)-th
\* returns None and leaves cursor None.
C7_NextInOrder ==
    (lastOp = "next" /\ playlist.tracks # <<>> /\ run[1].before = None) =>
        \A i \in 1..Len(run) :
            /\ i <= Len(playlist.tracks) =>
                   /\ run[i].ret = Some(playlist.tracks[i])
                   /\ run[i].after = Some(i - 1)
            /\ i = Len(playlist.tracks) + 1 =>
                   /\ run[i].ret = None
                   /\ run[i].after = None

\* a run of n + 1 next() calls from cursor None on n >= 2 tracks
C7_Witness ==
    /\ lastOp = "next"
    /\ Len(playlist.tracks) >= 2
    /\ run[1].before = None
    /\ Len(run) = Len(playlist.tracks) + 1

\* C8: on an empty playlist every call of next() and of previous() returns
\* None and leaves the cursor None.
C8_EmptyReturnsNone ==
    (lastOp \in {"next", "previous"} /\ playlist.tracks = <<>>) =>
        /\ playlist.current_index = None
        /\ \A i \in 1..Len(run) :
               run[i].ret = None /\ run[i].after = None

\* next() called three times in a row on the empty playlist
C8_Witness ==
    /\ lastOp = "next"
    /\ playlist.tracks = <<>>
    /\ Len(run) >= 3

\* C9: on a non-empty playlist previous() never returns None: from cursor
\* None or Some(0) it leaves Some(0) and returns tracks[0]; from Some(k),
\* k > 0, it leaves Some(k-1) and returns tracks[k-1].
C9_PreviousClamps ==
    (lastOp = "previous" /\ playlist.tracks # <<>>) =>
        \A i \in 1..Len(run) :
            /\ run[i].ret # None
            /\ run[i].after # None
            /\ Unwrap(run[i].after) >= 0
            /\ (run[i].before = None \/ run[i].before = Some(0)) =>
                   /\ run[i].after = Some(0)
                   /\ run[i].ret = Some(playlist.tracks[1])
            /\ (run[i].before # None /\ run[i].before # Some(0)) =>
                   /\ run[i].after = Some(Unwrap(run[i].before) - 1)
                   /\ run[i].ret =
                          Some(playlist.tracks[Unwrap(run[i].before)])

\* previous() from index 1, then twice more at index 0
C9_Witness ==
    /\ lastOp = "previous"
    /\ Len(run) >= 3
    /\ run[1].before = Some(1)
    /\ run[Len(run)].before = Some(0)
    /\ run[Len(run)].ret = Some(playlist.tracks[1])

\* a list of two paths that each name an existing audio file
TwoEligibleFiles(paths) ==
    /\ Len(paths) = 2
    /\ \A i \in 1..2 : is_file(paths[i]) /\ is_audio_file(paths[i])

\* a freshly started daemon: empty playlist, cursor None, player Stopped
Fresh == playlist = Playlist_new /\ player = Player_new

\* the response to a GetStatus handled in the state a step leads to
StatusAfter ==
    handle_command(player', playlist', last_manual_command', CmdGetStatus,
                   now').response

\* C10 as stated: AddTracks with two eligible files on a fresh daemon, then
\* GetStatus, reports playlist_length 2 and current_index None.
C10_StatusIndexNone ==
    [][\A paths \in AddLists :
          (Fresh /\ TwoEligibleFiles(paths)
                 /\ HandleCommand(CmdAddTracks(paths)))
              => /\ StatusAfter.type = "Status"
                 /\ StatusAfter.status.playlist_length = 2
                 /\ StatusAfter.status.current_index = None]_vars

\* C10 amended: the Status reports playlist_length 2 and current_index
\* Some(0), the first track added having become current.
C10_StatusIndexFirst ==
    [][\A paths \in AddLists :
          (Fresh /\ TwoEligibleFiles(paths)
                 /\ HandleCommand(CmdAddTracks(paths)))
              => /\ StatusAfter.type = "Status"
                 /\ StatusAfter.status.playlist_length = 2
                 /\ StatusAfter.status.current_index = Some(0)]_vars

\* the Status answered to GetStatus after AddTracks{["a.mp3",
\* "music/bad.flac"]} on the fresh daemon
C10_Witness ==
    /\ response.type = "Status"
    /\ response.status.playlist_length = 2
    /\ response.status.current_index = Some(0)
    /\ response.status.state = "Stopped"
    /\ playlist.tracks = <<"a.mp3", "music/bad.flac">>
    /\ player = Player_new
    /\ last_manual_command = 0 - InitialPastSecs

\* C11: Play{path: None} with no current track and a non-empty playlist
\* loads tracks[cursor] when the cursor is Some, and otherwise advances the
\* cursor to Some(0) and loads tracks[0]; when the load succeeds the response
\* is Ok, the state is Playing, current_track is the loaded track and
\* current_index points at it.
C11_PlayFromPlaylist ==
    [][(/\ player.current_track = None
        /\ playlist.tracks # <<>>
        /\ HandleCommand(CmdPlay(None))) =>
          LET i == IF IsSome(playlist.current_index)
                   THEN Unwrap(playlist.current_index) ELSE 0
              track == playlist.tracks[i + 1]
              r == load_track(player, track, now)
          IN  /\ playlist'.tracks = playlist.tracks
              /\ playlist'.current_index = Some(i)
              /\ player' = r.player
              /\ r.ok => /\ response' = Ok
                         /\ player'.state = "Playing"
                         /\ player'.current_track = Some(track)
                         /\ playlist'.tracks[Unwrap(playlist'.current_index) + 1]
                                = track]_vars

\* the first track of a two-track playlist is playing, started by the
\* command answered Ok at this instant
C11_Witness ==
    /\ response = Ok
    /\ playlist = [tracks |-> <<"a.mp3", "music/bad.flac">>,
                   current_index |-> Some(0)]
    /\ player.state = "Playing"
    /\ player.current_track = Some("a.mp3")
    /\ player.start_time = Some(now)
    /\ last_manual_command = now
    /\ now > 0

\* C12: Next on the last track answers Error and leaves the Player as it
\* was; any Next or Previous answered Error leaves every Player field
\* unchanged.
C12_ErrorKeepsPlayer ==
    [][/\ (/\ playlist.tracks # <<>>
           /\ playlist.current_index = Some(Len(playlist.tracks) - 1)
           /\ HandleCommand(CmdNext)) =>
              response'.type = "Error" /\ player' = player
       /\ \A c \in {CmdNext, CmdPrevious} :
              (HandleCommand(c) /\ response'.type = "Error") =>
                  player' = player]_vars

\* Next ran off the end of the playlist while its last track was playing
C12_Witness ==
    /\ response = Error("No playable next track found")
    /\ playlist = [tracks |-> <<"a.mp3">>, current_index |-> None]
    /\ player.state = "Playing"
    /\ player.current_track = Some("a.mp3")
    /\ player.start_time # Some(now)

\* C13: Play{path: None} with no current track and an empty playlist answers
\* Error("Playlist is empty") and leaves the Player and the Playlist
\* unchanged.
C13_EmptyPlaylistPlay ==
    [][(/\ player.current_track = None
        /\ playlist.tracks = <<>>
        /\ HandleCommand(CmdPlay(None))) =>
          /\ response' = Error("Playlist is empty")
          /\ player' = player
          /\ playlist' = playlist]_vars

\* the Error answer on an emptied playlist, the player stopped at volume 100
C13_Witness ==
    /\ response = Error("Playlist is empty")
    /\ playlist = Playlist_new
    /\ player.current_track = None
    /\ player.state = "Stopped"
    /\ player.volume = 100
    /\ player.duration = 0
    /\ last_manual_command = now

\* C14: for every level in 0..=255 SetVolume stores min(level, 100) as the
\* volume, so the stored volume lies in 0..=100 in every state; a GetStatus
\* that follows reports the stored value (100 after level 150, 55 after 55).
C14_VolumeClamped ==
    /\ player.volume \in 0..100
    /\ \A level \in 0..255 :
          LET stored == IF level <= 100 THEN level ELSE 100
              r == handle_command(player, playlist, last_manual_command,
                                  CmdSetVolume(level), now)
              s == handle_command(r.player, r.playlist,
                                  r.last_manual_command, CmdGetStatus, now)
          IN  /\ r.response = Ok
              /\ r.player.volume = stored
              /\ r.player.sink.volume = stored
              /\ s.response.type = "Status"
              /\ s.response.status.volume = stored
              /\ level = 150 => s.response.status.volume = 100
              /\ level = 55 => s.response.status.volume = 55

\* GetStatus reports volume 100 while a track plays, the level having been
\* clamped
C14_Witness ==
    /\ response.type = "Status"
    /\ response.status.volume = 100
    /\ response.status.state = "Playing"
    /\ player.volume = 100
    /\ player.sink.volume = 100

\* load_track succeeds on the track
Loadable(track) == load_track(player, track, now).ok

\* the index of the i-th candidate Next pops (i >= 1), if the list reaches it
NextCandidate(i) ==
    IF IsSome(playlist.current_index)
    THEN Unwrap(playlist.current_index) + i
    ELSE i - 1

\* the index of the i-th candidate Previous pops on a non-empty list
PreviousCandidate(i) ==
    IF IsSome(playlist.current_index)
    THEN IF Unwrap(playlist.current_index) - i > 0
         THEN Unwrap(playlist.current_index) - i ELSE 0
    ELSE 0

\* the least member of a non-empty set of numbers
Least(S) == CHOOSE x \in S : \A y \in S : x <= y

\* C15: Next and Previous pop at most 5 candidates and stop at the first one
\* that loads, answering Ok; they answer Error exactly when every attempted
\* load fails or the playlist yields None first, and never pop a sixth
\* candidate, whatever lies further on.
C15_AtMostFiveCandidates ==
    [][/\ HandleRetry(CmdNext) =>
            LET tracks == playlist.tracks
                avail == {i \in 1..5 : NextCandidate(i) < Len(tracks)}
                hits == {i \in avail : Loadable(tracks[NextCandidate(i) + 1])}
            IN  /\ playlist'.tracks = tracks
                /\ IF hits # {}
                   THEN /\ response' = Ok
                        /\ playlist'.current_index =
                               Some(NextCandidate(Least(hits)))
                        /\ player'.current_track =
                               Some(tracks[NextCandidate(Least(hits)) + 1])
                   ELSE /\ response' = Error("No playable next track found")
                        /\ player' = player
                        /\ playlist'.current_index =
                               IF Cardinality(avail) = 5
                               THEN Some(NextCandidate(5))
                               ELSE None
       /\ HandleRetry(CmdPrevious) =>
            LET tracks == playlist.tracks
                avail == IF tracks = <<>> THEN {} ELSE 1..5
                hits == {i \in avail :
                            Loadable(tracks[PreviousCandidate(i) + 1])}
            IN  /\ playlist'.tracks = tracks
                /\ IF hits # {}
                   THEN /\ response' = Ok
                        /\ playlist'.current_index =
                               Some(PreviousCandidate(Least(hits)))
                        /\ player'.current_track =
                               Some(tracks[PreviousCandidate(Least(hits)) + 1])
                   ELSE /\ response' =
                               Error("No playable previous track found")
                        /\ player' = player
                        /\ playlist'.current_index =
                               IF tracks = <<>> THEN playlist.current_index
                               ELSE Some(PreviousCandidate(5))]_vars

\* Next gave up after five unloadable tracks with a loadable sixth behind them
C15_Witness ==
    /\ response = Error("No playable next track found")
    /\ playlist.current_index = Some(4)
    /\ Len(playlist.tracks) = 6
    /\ playlist.tracks[6] = "a.mp3"
    /\ \A i \in 1..5 : playlist.tracks[i] = "music/bad.flac"
    /\ player = Player_new

\* C16 as stated: once the cursor is Some, it returns to None only through
\* clear().
C16_ResetOnlyByClear ==
    [][(IsSome(playlist.current_index) /\ playlist'.current_index = None)
          => lastOp' = "clear"]_vars

\* C16: once the cursor is Some, it returns to None only through clear() or
\* through a next() call made with the cursor on the last track; add_track
\* and previous() never reset it.
C16_ResetOnlyByClearOrEnd ==
    [][(IsSome(playlist.current_index) /\ playlist'.current_index = None)
          => \/ lastOp' = "clear"
             \/ /\ lastOp' = "next"
                /\ playlist.current_index = Some(Len(playlist.tracks) - 1)
                /\ playlist'.tracks = playlist.tracks]_vars

\* next() has run off the end of a two-track playlist: the cursor is None
\* again although both tracks have been current
C16_Witness ==
    /\ lastOp = "next"
    /\ Len(playlist.tracks) = 2
    /\ playlist.current_index = None
    /\ Len(run) = 3
    /\ run[1].after = Some(0)
    /\ run[2].after = Some(1)
    /\ run[3].before = Some(1)
    /\ run[3].ret = None

\* C17: an add_track call that turns the empty playlist into a non-empty one
\* leaves the cursor at Some(0), whether it appends one file or the files of
\* a directory; an add_track call on a non-empty playlist, or one that
\* appends nothing, leaves the cursor as it was.
C17_FirstAddSetsCursor ==
    [][lastOp' = "add_track" =>
          /\ (playlist.tracks = <<>> /\ playlist'.tracks # <<>>)
                 => playlist'.current_index = Some(0)
          /\ (playlist.tracks # <<>> \/ playlist'.tracks = playlist.tracks)
                 => playlist'.current_index = playlist.current_index]_vars

\* a connection's command has been decoded and its response is not yet sent
Serving == task.conn \in {"received", "loading", "responding"}

\* a step that accepts a connection or decodes or dispatches a command
CommandStep ==
    Accept \/ (\E command \in LoopCommands : Recv(command)) \/ Dispatch

\* C18: from the decode of a connection's command to the sending of its
\* response no other connection is accepted or decoded and no tick body
\* runs; a tick body that has started runs to its end without any command
\* being accepted, decoded, dispatched or loaded for.
C18_HandlingAtomic ==
    [][/\ Serving => /\ task.tick = "idle"
                     /\ ~(Accept \/ \E command \in LoopCommands : Recv(command))
                     /\ ~(TickBody \/ TickLoad)
       /\ task.tick = "loading" =>
              /\ task.conn = "none"
              /\ ~(CommandStep \/ LoadTrack \/ TickBody)]_vars

\* a command waits for its load while the tick's condition holds and the
\* playlist has a further track: the tick body is not running
C18_Witness ==
    /\ task.conn = "loading"
    /\ task.tick = "idle"
    /\ auto_advance_due(player, last_manual_command, now)
    /\ IsSome(next(playlist).ret)

\* C19: while a load_track call is executing, in a command or in the tick
\* branch, no guard of the playlist lock is alive.
C19_NoGuardAcrossLoad ==
    (task.conn = "loading" \/ task.tick = "loading") => ~task.guard

\* C20: the only step that ends the loop is the dispatch of Shutdown; after
\* an Error response, a failed send, a failed recv or a failed accept the
\* loop is running and back at its select!.
C20_OnlyShutdownEnds ==
    [][/\ ~running' => /\ task.conn = "received"
                       /\ task.command = Some(CmdShutdown)
       /\ ((\E ok \in BOOLEAN : Send(ok)) \/ RecvFailed \/ SleepDone) =>
              running' /\ at_select(task')
       /\ AcceptFailed => running' /\ task'.conn = "sleeping"
       /\ (Dispatch /\ task.command # Some(CmdShutdown)) => running'
       /\ (LoadTrack \/ TickBody \/ TickLoad) => running']_vars

\* after a response write failed, the loop has accepted a further connection,
\* handled its Play on the empty playlist and is about to answer the Error
C20_Witness ==
    /\ running
    /\ task.last = "send_failed"
    /\ task.conn = "responding"
    /\ task.out = Error("Playlist is empty")

\* C21: when conn.recv() fails on a connection, no command is dispatched:
\* Player, Playlist and last_manual_command are unchanged, nothing is written
\* on the connection, and the loop is back at its select!, running, so that
\* the next connection is accepted and served.
C21_UndecodableAbortsExchange ==
    [][(task.conn = "accepted" /\ task'.conn = "none") =>
          /\ player' = player
          /\ playlist' = playlist
          /\ last_manual_command' = last_manual_command
          /\ response' = NoResponse
          /\ task' = [Task_new EXCEPT !.last = "recv_failed"]
          /\ running'
          /\ at_select(task')]_vars

\* after a recv failure the next connection's command has been handled and
\* its Ok is about to be sent
C21_Witness ==
    /\ running
    /\ task.last = "recv_failed"
    /\ task.conn = "responding"
    /\ task.out = Ok
    /\ player.state = "Playing"

\* C22: the dispatch of Shutdown ends the process at once: no response is
\* written, Player and Playlist are left as they are, and no step of the
\* loop (command, send, tick) is taken afterwards.
C22_ShutdownImmediate ==
    [][/\ running
       /\ (Dispatch /\ task.command = Some(CmdShutdown)) =>
              /\ ~running'
              /\ response' = NoResponse
              /\ player' = player
              /\ playlist' = playlist
              /\ task' = task]_vars

\* the process has exited on Shutdown while a track was playing
C22_Witness ==
    /\ ~running
    /\ task.conn = "received"
    /\ task.command = Some(CmdShutdown)
    /\ response = NoResponse
    /\ player.state = "Playing"
    /\ player.sink.len = 1

\* C23: while a track is loaded, the position never exceeds the wall-clock
\* time spent in state Playing since the load, whatever play and pause calls
\* were made: no elapsed time is counted twice.
C23_NoDoubleCount ==
    IsSome(player.current_track) => get_position(player, now) <= played

\* play() was called while Playing, a second after the load, and another
\* second has passed
C23_Witness ==
    /\ lastOp = "elapse"
    /\ player.state = "Playing"
    /\ played = 2
    /\ player.start_time = Some(1)
    /\ get_position(player, now) = 1

\* C27: a load_track call that succeeds, from whatever state, leaves state
\* Playing, current_track the loaded path, paused_position 0 and start_time
\* the instant of the load, so the position read at that instant is 0; the
\* duration is the new track's (0 for an mp3 or an unknown length).
C27_LoadResets ==
    \A path \in LoadPaths :
        LET r == load_track(player, path, now)
        IN  r.ok =>
              /\ r.player.state = "Playing"
              /\ r.player.current_track = Some(path)
              /\ r.player.paused_position = 0
              /\ r.player.start_time = Some(now)
              /\ get_position(r.player, now) = 0
              /\ r.player.duration = (IF path = "music/c.OGG" THEN 3 ELSE 0)
              /\ r.player.sink.len = 1
              /\ ~r.player.sink.paused

\* the mp3 has just been loaded at second 2: the timer fields start afresh
C27_Witness ==
    /\ lastOp = "load_track"
    /\ now = 2
    /\ player.current_track = Some("a.mp3")
    /\ player.state = "Playing"
    /\ player.start_time = Some(2)
    /\ player.paused_position = 0
    /\ player.duration = 0
    /\ played = 0

\* C28: pause() while Playing sets state Paused, adds exactly
\* now - start_time to paused_position and clears start_time, so the position
\* is the same just before and just after; pause() while Paused changes no
\* Player field.
C28_PauseFolds ==
    /\ player.state = "Playing" =>
          LET q == pause(player, now)
          IN  /\ IsSome(player.start_time)
              /\ q.state = "Paused"
              /\ q.paused_position =
                     player.paused_position + (now - Unwrap(player.start_time))
              /\ q.start_time = None
              /\ get_position(q, now) = get_position(player, now)
    /\ player.state = "Paused" => pause(player, now) = player

\* a track was paused two seconds after its load
C28_Witness ==
    /\ lastOp = "pause"
    /\ player.state = "Paused"
    /\ IsSome(player.current_track)
    /\ player.start_time = None
    /\ player.paused_position = 2
    /\ played = 2

\* C24 as stated: once the load of a tick has failed and while no command is
\* handled, no later tick loads the track that follows the cursor.
C24_TickStalls ==
    [][(/\ lastOp = "tick_failed"
        /\ IsSome(playlist.current_index)
        /\ TickAuto) => player' = player]_vars

\* C24: when the load of a tick fails the Player is unchanged and the cursor
\* stays on the failed track; the tick's condition still holds, so the next
\* tick pops the track after it and, if that one loads, plays it, without
\* any manual command; if it does not load or there is none, the Player is
\* again unchanged.
C24_TickSkipsUnloadable ==
    [][TickAuto =>
          LET n == next(playlist)
              due == auto_advance_due(player, last_manual_command, now)
          IN  /\ lastOp = "tick_failed" => due
              /\ due =>
                    /\ playlist' = n.playlist
                    /\ IF IsSome(n.ret) /\ Loadable(Unwrap(n.ret))
                       THEN /\ player'.current_track = n.ret
                            /\ player'.state = "Playing"
                            /\ player'.start_time = Some(now)
                            /\ lastOp' = "tick_loaded"
                       ELSE /\ player' = player
                            /\ auto_advance_due(player', last_manual_command',
                                                now')
                            /\ IsSome(n.ret) => lastOp' = "tick_failed"]_vars

\* the third track plays, loaded by a tick at second 3 after the tick before
\* it failed on the second track; the last manual command was at second 0
C24_Witness ==
    /\ lastOp = "tick_loaded"
    /\ playlist = [tracks |-> <<"a.mp3", "music/bad.flac", "a.mp3">>,
                   current_index |-> Some(2)]
    /\ player.current_track = Some("a.mp3")
    /\ player.start_time = Some(3)
    /\ last_manual_command = 0
    /\ now = 3

\* the tick is due, no command has just been handled, and the track the tick
\* would pop, at index i, loads
AdvancePending(i) ==
    /\ running
    /\ response = NoResponse
    /\ auto_advance_due(player, last_manual_command, now)
    /\ next(playlist).playlist.current_index = Some(i)
    /\ IsSome(next(playlist).ret)
    /\ Loadable(Unwrap(next(playlist).ret))

\* the track at index i is the current track and the cursor points at it
Advanced(i) ==
    /\ playlist.current_index = Some(i)
    /\ i < Len(playlist.tracks)
    /\ player.current_track = Some(playlist.tracks[i + 1])
    /\ player.state = "Playing"

\* C26: with the tick scheduled fairly, if the state is Playing, the sink is
\* idle, the quiet window has elapsed and the track after the cursor loads,
\* then that track is eventually the current track with the cursor on it,
\* unless a command is handled first.
C26_EventuallyAdvances ==
    \A i \in 0..(AutoLen - 1) :
        AdvancePending(i) ~> (Advanced(i) \/ response # NoResponse)

\* the second track plays, loaded by a tick from the first; no command has
\* been handled since second 0
C26_Witness ==
    /\ lastOp = "tick_loaded"
    /\ playlist = [tracks |-> <<"a.mp3", "a.mp3">>, current_index |-> Some(1)]
    /\ player.current_track = Some("a.mp3")
    /\ player.sink.len = 1
    /\ player.start_time = Some(now)
    /\ last_manual_command = 0
    /\ now = 3

\* the existing files whose extension is on the allow-list
EligibleFiles == {"a.mp3", "music/bad.flac", "music/c.OGG"}

\* the files below a directory
FilesUnder(path) ==
    IF path = "music"
    THEN {"music/bad.flac", "music/c.OGG", "music/cover.jpg"}
    ELSE {}

\* the number of eligible resources a list of paths resolves to
RECURSIVE ResolvedCount(_)
ResolvedCount(paths) ==
    IF paths = <<>> THEN 0
    ELSE (IF Head(paths) \in EligibleFiles THEN 1
          ELSE Cardinality(FilesUnder(Head(paths)) \cap EligibleFiles))
         + ResolvedCount(Tail(paths))

\* the path lists C25 is checked on
C25_Lists == AddLists \cup {<<path>> : path \in TrackPaths}

\* C25: AddTracks is append-only: the tracks before the call are a prefix of
\* the tracks after it, the length grows by exactly the number of eligible
\* resources its paths resolve to, everything appended is eligible, and the
\* answer is Ok even when some path is not eligible or does not exist.
C25_AppendOnly ==
    \A paths \in C25_Lists :
        LET r == handle_command(player, playlist, last_manual_command,
                                CmdAddTracks(paths), now)
            old == playlist.tracks
            new == r.playlist.tracks
        IN  /\ r.response = Ok
            /\ Len(new) = Len(old) + ResolvedCount(paths)
            /\ SubSeq(new, 1, Len(old)) = old
            /\ \A i \in (Len(old) + 1)..Len(new) : new[i] \in EligibleFiles
            /\ r.player = player

\* a.mp3 has been added twice and is held twice; no other command that
\* answers Ok has left a trace
C25_Witness ==
    /\ response = Ok
    /\ playlist.tracks = <<"a.mp3", "a.mp3">>
    /\ playlist.current_index = Some(0)
    /\ player = Player_new
    /\ last_manual_command = 0 - InitialPastSecs
    /\ now > 0

\* C29: Stop, from whatever state, leaves state Stopped, current_track None,
\* start_time None and paused_position 0 (position 0) with the sink emptied,
\* and changes neither the Playlist nor the volume.
C29_StopResets ==
    LET r == handle_command(player, playlist, last_manual_command, CmdStop,
                            now)
        q == r.player
    IN  /\ q = stop(player)
        /\ r.response = Ok
        /\ q.state = "Stopped"
        /\ q.current_track = None
        /\ q.start_time = None
        /\ q.paused_position = 0
        /\ get_position(q, now) = 0
        /\ q.sink.len = 0
        /\ q.volume = player.volume
        /\ q.sink.volume = player.sink.volume
        /\ r.playlist = playlist

\* the 3-second track at index 1 was stopped: the cursor and the volume are
\* as they were
C29_Witness ==
    /\ response = Ok
    /\ player.state = "Stopped"
    /\ player.current_track = None
    /\ player.duration = 3
    /\ player.sink.len = 0
    /\ player.volume = 100
    /\ playlist.current_index = Some(1)
    /\ last_manual_command = now

\* C30: play() changes nothing when current_track is None; when a track is
\* set it sets state Playing and start_time to now and leaves current_track
\* and paused_position alone.  Play{path: None} with a track set does just
\* that: no load, no cursor movement, and from Paused the position goes on
\* from the paused value.
C30_PlayResumes ==
    /\ player.current_track = None =>
          /\ play(player, now) = player
          /\ play(player, now).start_time = None
    /\ IsSome(player.current_track) =>
          LET q == play(player, now)
              r == handle_command(player, playlist, last_manual_command,
                                  CmdPlay(None), now)
          IN  /\ q.state = "Playing"
              /\ q.start_time = Some(now)
              /\ q.current_track = player.current_track
              /\ q.paused_position = player.paused_position
              /\ q.duration = player.duration
              /\ r.player = q
              /\ r.playlist = playlist
              /\ r.response = Ok
              /\ player.state = "Paused" =>
                     /\ get_position(q, now) = player.paused_position
                     /\ get_position(q, now) = get_position(player, now)

\* a track paused at position 1 has just been resumed
C30_Witness ==
    /\ response = Ok
    /\ player.state = "Playing"
    /\ player.paused_position = 1
    /\ player.start_time = Some(now)
    /\ player.sink.len = 1
    /\ ~player.sink.paused
    /\ last_manual_command = now

\* a step of the tick branch at the head of the loop: the condition and, if
\* it holds, playlist.next()
TickBodyStep ==
    /\ at_select(task)
    /\ task'.conn = "none"
    /\ now' = now
    /\ player'.sink = player.sink

\* the step in which the load_track call of the tick branch returns
TickLoadStep == task.tick = "loading" /\ task'.tick = "idle"

\* C31: one tick calls Playlist.next() at most once and Player.load_track at
\* most once.  The step that evaluates the condition and pops leaves the
\* Player as it is and moves the playlist by exactly one next() if the tick
\* is due, not at all otherwise; a load follows only if next() returned a
\* track.  The step in which that load returns ends the tick without
\* touching the playlist; if the load failed the Player is unchanged and the
\* cursor is on the failed track.
C31_TickOnePopOneLoad ==
    [][/\ TickBodyStep =>
              LET n == next(playlist)
                  due == auto_advance_due(player, last_manual_command, now)
              IN  /\ player' = player
                  /\ playlist' = IF due THEN n.playlist ELSE playlist
                  /\ task'.tick = "loading" <=> (due /\ IsSome(n.ret))
                  /\ task'.tick = "loading" => task'.candidate = n.ret
       /\ TickLoadStep =>
              LET r == load_track(player, Unwrap(task.candidate), now)
              IN  /\ playlist' = playlist
                  /\ at_select(task')
                  /\ player' = r.player
                  /\ ~r.ok => /\ player' = player
                              /\ current(playlist') = task.candidate]_vars

\* a tick has just ended on a failed load of the second track: the cursor is
\* on that track and the Player still holds the first one, Playing
C31_Witness ==
    /\ task.last = "ticked"
    /\ at_select(task)
    /\ playlist = [tracks |-> <<"a.mp3", "music/bad.flac">>,
                   current_index |-> Some(1)]
    /\ player.current_track = Some("a.mp3")
    /\ player.state = "Playing"
    /\ is_empty(player)

\* the Mutexes caller i holds
Holds(i) == {l \in LockNames : lock[l] = i}

\* the Mutexes of the fields, the sink apart
FieldLocks == LockNames \ {"sink"}

\* the methods that take the sink Mutex, and the read accessors
SinkOps == {"load_track", "play", "pause", "stop", "set_volume", "is_empty"}

ReadOps ==
    {"get_state", "get_current_track", "get_volume", "get_duration",
     "get_position"}

\* C32 as stated: a method that takes the sink Mutex takes it before any
\* field Mutex, so that a caller inside such a method holds a field Mutex
\* only under the sink guard.
C32_SinkLockFirst ==
    \A i \in Callers :
        (thread[i].op \in SinkOps /\ Holds(i) \cap FieldLocks # {})
            => "sink" \in Holds(i)

\* C32: with several callers inside Player methods no deadlock is
\* reachable.  A caller holds at most one field Mutex at a time and asks for
\* no Mutex while it holds one, so the holder of a field Mutex can always
\* step; the sink Mutex is never asked for under a field guard (load_track
\* takes and drops the duration Mutex before it takes the sink, the other
\* mutating methods take the sink first).  The read accessors never take the
\* sink Mutex, so one that waits is waiting for a field guard whose holder
\* can step, even while a load or a pause holds the sink.  Every waiting
\* caller is therefore at most two waits away from a caller that can step.
C32_NoDeadlock ==
    \A i \in Callers :
        thread[i].pc # 0 =>
            /\ Cardinality(Holds(i) \cap FieldLocks) <= 1
            /\ Holds(i) \cap FieldLocks # {} => StepOf(i).wait = NoLock
            /\ thread[i].op \in ReadOps =>
                   /\ "sink" \notin Holds(i)
                   /\ StepOf(i).wait # "sink"
                   /\ Blocked(i) => ~Blocked(lock[StepOf(i).wait])
            /\ Blocked(i) =>
                   LET j == lock[StepOf(i).wait]
                   IN  \/ ~Blocked(j)
                       \/ ~Blocked(lock[StepOf(j).wait])

\* a pause holds the sink and waits for start_time, which a position read
\* holds: the read can finish, then the pause
C32_Witness ==
    /\ thread[1].op = "pause"
    /\ Holds(1) = {"sink"}
    /\ Blocked(1)
    /\ StepOf(1).wait = "start_time"
    /\ thread[2].op = "get_position"
    /\ Holds(2) = {"start_time"}
    /\ ~Blocked(2)

\* the latest read of the Reader has returned, and exactly one call of the
\* Writer was in progress at some point between its start and its return:
\* the call the Writer is in, or the one it made last
ReadOverlapsOneCall ==
    LET r == thread[Reader]
        w == thread[Writer]
    IN  /\ r.op = "get_position"
        /\ r.pc = 0
        /\ IsSome(r.result)
        /\ w.calls = r.c1
        /\ \/ r.m0 /\ r.c1 = r.c0
           \/ ~r.m0 /\ r.c1 = r.c0 + 1

\* C33: a position read that overlaps a pause() or a load_track() of
\* another caller returns the position as it was just before that call or
\* as it is just after it.
C33_ReadBeforeOrAfter ==
    LET r == thread[Reader]
        w == thread[Writer]
    IN  (ReadOverlapsOneCall /\ w.op \in {"pause", "load_track"}) =>
            Unwrap(r.result) \in
                {get_position(w.before, r.at),
                 get_position(effect_of(w.op, w.arg, w.level, w.before, r.at),
                              r.at)}

\* C34: GetStatus and GetPlaylist change no Player field, no track, not the
\* cursor and not last_manual_command.  The Status answered carries the
\* Player's state, current track, duration and volume, the number of tracks
\* and the cursor as they are when the command is dispatched; the Playlist
\* answered is the tracks in playlist order.
C34_QueriesReadOnly ==
    LET s == handle_command(player, playlist, last_manual_command,
                            CmdGetStatus, now)
        g == handle_command(player, playlist, last_manual_command,
                            CmdGetPlaylist, now)
    IN  /\ s.player = player /\ g.player = player
        /\ s.playlist = playlist /\ g.playlist = playlist
        /\ s.last_manual_command = last_manual_command
        /\ g.last_manual_command = last_manual_command
        /\ ~s.exit /\ ~g.exit
        /\ s.response.type = "Status"
        /\ s.response.status.state = player.state
        /\ s.response.status.current_track = player.current_track
        /\ s.response.status.duration = player.duration
        /\ s.response.status.volume = player.volume
        /\ s.response.status.playlist_length = Len(playlist.tracks)
        /\ s.response.status.current_index = playlist.current_index
        /\ g.response = [type |-> "Playlist", tracks |-> playlist.tracks]

\* a GetStatus has just been answered while the second of two tracks plays,
\* within the two seconds after the Next that loaded it
C34_Witness ==
    /\ response.type = "Status"
    /\ response.status.state = "Playing"
    /\ response.status.playlist_length = 2
    /\ response.status.current_index = Some(1)
    /\ response.status.current_track = Some(playlist.tracks[2])
    /\ now - last_manual_command <= QuietSecs
    /\ player.state = "Playing"
    /\ playlist.current_index = Some(1)

\* C35: Play { path: Some(p) } leaves tracks and cursor as they are, whether
\* the load succeeds or fails, so that a Next handled after it pops the same
\* candidates as a Next handled in its place; ClearPlaylist empties tracks
\* and sets the cursor to None and changes no Player field.
C35_PlayPathKeepsPlaylist ==
    /\ \A path \in PlayPaths :
           LET r == handle_command(player, playlist, last_manual_command,
                                   CmdPlay(Some(path)), now)
               after == handle_command(r.player, r.playlist,
                                       r.last_manual_command, CmdNext, now)
               instead == handle_command(player, playlist,
                                         last_manual_command, CmdNext, now)
           IN  /\ r.playlist.tracks = playlist.tracks
               /\ r.playlist.current_index = playlist.current_index
               /\ Loadable(path) => /\ r.response = Ok
                                    /\ r.player.current_track = Some(path)
               /\ ~Loadable(path) => /\ r.response.type = "Error"
                                     /\ r.player = player
               /\ after.playlist = instead.playlist
               /\ after.response = instead.response
    /\ LET c == handle_command(player, playlist, last_manual_command,
                               CmdClearPlaylist, now)
       IN  /\ c.player = player
           /\ c.playlist = [tracks |-> <<>>, current_index |-> None]
           /\ c.response = Ok

\* Play { path: Some("a.mp3") } was handled at second 3, after a tick had
\* left the cursor on the second track, which does not load: a.mp3 plays
\* from the start while the cursor designates music/bad.flac
C35_Witness ==
    /\ playlist = [tracks |-> <<"a.mp3", "music/bad.flac">>,
                   current_index |-> Some(1)]
    /\ player.current_track = Some("a.mp3")
    /\ player.state = "Playing"
    /\ player.sink.len = 1
    /\ player.start_time = Some(3)
    /\ last_manual_command = 3
    /\ response = Ok

\* C36: in every state the daemon reaches, a Playing player has a current
\* track and a running start_time; a Stopped player has no current track,
\* no start_time and paused_position 0, so its position is 0.
C36_StateFieldsAgree ==
    /\ player.state = "Playing" =>
           /\ player.current_track # None
           /\ player.start_time # None
    /\ player.state = "Stopped" =>
           /\ player.current_track = None
           /\ player.start_time = None
           /\ player.paused_position = 0
           /\ get_position(player, now) = 0

\* a Stop was handled at second 3 on a player that had been paused
C36_Witness ==
    /\ player.state = "Stopped"
    /\ player.sink.paused
    /\ now = 3
    /\ last_manual_command = 3
    /\ response = Ok

\* C37: in every state the daemon reaches, the player has no current track
\* exactly when it is Stopped; a Pause handled while no track is loaded
\* leaves it Stopped.
C37_NoTrackIffStopped ==
    (player.current_track = None) <=> (player.state = "Stopped")

\* every track of the playlist loads
AllLoadable ==
    \A k \in 1..Len(playlist.tracks) : Loadable(playlist.tracks[k])

\* the track that played has ended, the tick is due, no command has just
\* been handled, the playlist has a track at index i and all its tracks load
WrapPending(i) ==
    /\ running
    /\ response = NoResponse
    /\ auto_advance_due(player, last_manual_command, now)
    /\ i < Len(playlist.tracks)
    /\ AllLoadable

\* a tick has loaded the track at index i: it is queued in the sink and the
\* cursor is on it
LoadedByTick(i) ==
    /\ lastOp = "tick_loaded"
    /\ Advanced(i)
    /\ player.sink.len = 1

\* C38: auto-advance wraps round.  A due tick with the cursor on the last
\* track gets None from next(): the cursor becomes None and the Player
\* stays as it is, Playing with the track that ended as current track; a due
\* tick with the cursor None gets tracks[0] and, if it loads, plays it.  No
\* tick, drained sink or passing second makes the state Stopped.  With the
\* timer and the audio thread running and all tracks loadable, each track is
\* loaded again after every track end, unless a command is handled first.
C38_AutoAdvanceWraps ==
    /\ [][TickAuto =>
            LET due == auto_advance_due(player, last_manual_command, now)
                last == Len(playlist.tracks) - 1
            IN  /\ (due /\ playlist.tracks # <<>>
                        /\ playlist.current_index = Some(last)) =>
                       /\ playlist'.current_index = None
                       /\ player' = player
                       /\ player'.state = "Playing"
                /\ (due /\ playlist.tracks # <<>>
                        /\ playlist.current_index = None
                        /\ Loadable(playlist.tracks[1])) =>
                       /\ playlist'.current_index = Some(0)
                       /\ player'.current_track = Some(playlist.tracks[1])
                       /\ player'.state = "Playing"]_vars
    /\ [][(TickAuto \/ SinkDrain \/ Pass) =>
             (player'.state = "Stopped" => player.state = "Stopped")]_vars
    /\ \A i \in 0..(AutoLen - 1) :
           WrapPending(i) ~> (LoadedByTick(i) \/ response # NoResponse)

\* the first of two tracks plays again, loaded by a tick that found the
\* cursor None after the tick before it had run off the end of the playlist;
\* no command has been handled since second 0
C38_Witness ==
    /\ lastOp = "tick_loaded"
    /\ playlist = [tracks |-> <<"a.mp3", "a.mp3">>, current_index |-> Some(0)]
    /\ player.current_track = Some("a.mp3")
    /\ player.sink.len = 1
    /\ player.start_time = Some(3)
    /\ last_manual_command = 0
    /\ now = 3

\* the Player plays the track the cursor of pl designates
PlaysCursorTrack(p, pl) ==
    /\ pl.current_index # None
    /\ Unwrap(pl.current_index) < Len(pl.tracks)
    /\ p.current_track = Some(pl.tracks[Unwrap(pl.current_index) + 1])
    /\ p.state = "Playing"

\* C39: right after a Next or a Previous answered Ok, after a
\* Play { path: None } that loaded a track of the playlist, and after a tick
\* whose load succeeded, the current track is tracks[cursor] and the state
\* is Playing.
C39_CursorAndTrackAgree ==
    /\ \A command \in {CmdNext, CmdPrevious} :
           LET r == handle_command(player, playlist, last_manual_command,
                                   command, now)
           IN  r.response = Ok => PlaysCursorTrack(r.player, r.playlist)
    /\ LET r == handle_command(player, playlist, last_manual_command,
                               CmdPlay(None), now)
       IN  (player.current_track = None /\ r.response = Ok) =>
               PlaysCursorTrack(r.player, r.playlist)
    /\ LET r == tick(player, playlist, last_manual_command, now)
           n == next(playlist)
       IN  (/\ auto_advance_due(player, last_manual_command, now)
            /\ IsSome(n.ret)
            /\ Loadable(Unwrap(n.ret))) =>
               PlaysCursorTrack(r.player, r.playlist)

\* a Next was answered Ok at second 3: it skipped music/bad.flac, which does
\* not load, and plays music/c.OGG with the cursor on it
C39_Witness ==
    /\ response = Ok
    /\ playlist = [tracks |-> <<"music/bad.flac", "music/c.OGG">>,
                   current_index |-> Some(1)]
    /\ player.current_track = Some("music/c.OGG")
    /\ player.state = "Playing"
    /\ player.start_time = Some(3)
    /\ last_manual_command = 3
    /\ now = 3

\* C40: while an accepted connection has not delivered its request, run()
\* is inside the accept branch: no tick body runs (the playlist keeps its
\* cursor, no load starts, the Player keeps its track) and no other
\* connection is accepted; the only way on is that connection's recv
\* returning, with a command or with an error.  A tick that is due is acted
\* on only from the head of the loop.
C40_RecvBlocksLoop ==
    /\ [][task.conn = "accepted" =>
             /\ playlist' = playlist
             /\ last_manual_command' = last_manual_command
             /\ player'.current_track = player.current_track
             /\ player'.state = player.state
             /\ task'.tick = "idle"
             /\ task'.conn \in {"accepted", "received", "none"}
             /\ task'.conn = "received" => IsSome(task'.command)
             /\ task'.conn = "none" => task'.last = "recv_failed"]_vars
    /\ [][(task.tick = "idle" /\ task'.tick = "loading") =>
             at_select(task)]_vars
    /\ [](task.tick # "idle" => task.conn = "none")

\* a connection is accepted and silent while the track has ended and the
\* quiet window is over: the tick that would load the second track waits
C40_Witness ==
    /\ running
    /\ task.conn = "accepted"
    /\ task.tick = "idle"
    /\ auto_advance_due(player, last_manual_command, now)
    /\ IsSome(next(playlist).ret)
    /\ Loadable(Unwrap(next(playlist).ret))

====
